---------------------------- MODULE Spec2Model ----------------------------
(***************************************************************************)
(* State-synchronisation core of the Ethereum wallet engine                *)
(* (src/src/ethereum/ethEngine.js: EthereumEngine and EthereumNetwork).    *)
(*                                                                         *)
(* JavaScript objects are functions whose DOMAIN is the set of keys that   *)
(* are present; a missing key is `undefined`.  Arbitrary-precision decimal *)
(* strings that the code only adds, subtracts and compares through bns     *)
(* (the nonces) are integers; the balance strings, which the code stores   *)
(* and hands out as written, are sequences of decimal digits.              *)
(*                                                                         *)
(* A handler's sequential code is an operator from a machine record        *)
(*   [wld, needs, eng, trace]                                              *)
(* to the machine record after it; an action applies one whole handler.    *)
(***************************************************************************)
EXTENDS Integers, Sequences, FiniteSets, TLC

VARIABLES
  walletLocalData,  \* ethEngine.walletLocalData (the Snapshot)
  ethNeeds,         \* EthereumNetwork.ethNeeds (the PollState timestamps)
  engine,           \* EthereumEngine fields outside walletLocalData
  trace,            \* callbacks and calls made by the handler that ran last
  lastCall,         \* the handler that ran last: its name, inputs and result
  nonceRun,         \* the run of signTx calls since the last nonce merge or reset:
                    \* the nonce state it started from and its length
  now,              \* Date.now()
  loop,             \* position of needsLoop and its locals
  race              \* the running asyncWaterfall / promiseAny call

vars == <<walletLocalData, ethNeeds, engine, trace, lastCall, nonceRun, now,
          loop, race>>

---------------------------------------------------------------------------
(* Bounds of the model *)

MaxMergeNonce == 5
MaxNonce == 12
MaxPending == 2
MaxRun == 7
MaxBalLen == 2
MaxBatch == 2
MaxHeight == 2
MaxElapsed == 21000
MaxPasses == 3
MaxCandidates == 3
MaxPages == 2
MaxLoops == 2
MaxFailures == 1
MaxQueryHeight == 10
StartTime == 30000

---------------------------------------------------------------------------
(* Program constants *)

PRIMARY_CURRENCY == "ETH"
BLOCKHEIGHT_POLL_MILLISECONDS == 20000
NONCE_POLL_MILLISECONDS == 20000
BAL_POLL_MILLISECONDS == 20000
TXS_POLL_MILLISECONDS == 20000
MAX_NONCE_DIFF == 5
ADDRESS_QUERY_LOOKBACK_BLOCKS == 8
NUM_TRANSACTIONS_TO_QUERY == 50

\* walletLocalData.enabledTokens
enabledTokens == <<"ETH", "TKN">>

Tokens == {enabledTokens[i] : i \in DOMAIN enabledTokens}

---------------------------------------------------------------------------
(* JavaScript objects *)

EmptyObj == [k \in {} |-> 0]

Has(obj, k) == k \in DOMAIN obj

Put(obj, k, v) == [x \in (DOMAIN obj) \cup {k} |-> IF x = k THEN v ELSE obj[x]]

\* Object.keys(obj) for the objects keyed by currency code, in the order of
\* enabledTokens
RECURSIVE KeysFrom(_, _)
KeysFrom(obj, i) ==
  IF i > Len(enabledTokens) THEN <<>>
  ELSE (IF Has(obj, enabledTokens[i]) THEN <<enabledTokens[i]>> ELSE <<>>)
         \o KeysFrom(obj, i + 1)

ObjectKeys(obj) == KeysFrom(obj, 1)

---------------------------------------------------------------------------
(* The machine a handler runs on *)

Machine == [wld |-> walletLocalData, needs |-> ethNeeds, eng |-> engine,
            trace |-> <<>>]

Emit(m, ev) == [m EXCEPT !.trace = Append(m.trace, ev)]

Apply(m) ==
  /\ walletLocalData' = m.wld
  /\ ethNeeds' = m.needs
  /\ engine' = m.eng
  /\ trace' = m.trace

InitWalletLocalData ==
  [blockHeight |-> 0,
   nextNonce |-> 0,
   unconfirmedNextNonce |-> 0,
   numUnconfirmedSpendTxs |-> 0,
   totalBalances |-> EmptyObj,
   lastTransactionQueryHeight |-> EmptyObj]

InitEthNeeds ==
  [blockHeightLastChecked |-> 0,
   nonceLastChecked |-> 0,
   tokenBalLastChecked |-> EmptyObj,
   tokenTxsLastChecked |-> EmptyObj]

InitEngine ==
  [engineOn |-> FALSE,
   walletLocalDataDirty |-> FALSE,
   transactionList |-> EmptyObj,
   transactionsChangedArray |-> <<>>,
   tokenCheckBalanceStatus |-> EmptyObj,
   tokenCheckTransactionsStatus |-> EmptyObj]

---------------------------------------------------------------------------
(* biggystring on decimal strings *)

Digits == 0 .. 1

RECURSIVE DecVal(_)
DecVal(str) ==
  IF Len(str) = 0 THEN 0
  ELSE 10 * DecVal(SubSeq(str, 1, Len(str) - 1)) + str[Len(str)]

\* bns.eq(a, b): both operands are converted to big numbers and compared
bnsEq(a, b) == DecVal(a) = DecVal(b)

\* if (x) on a number: 0 is falsy
Truthy(n) == n # 0

---------------------------------------------------------------------------
(* CurrencyEngine (common/engine.js) as the engine uses it *)

\* transactionList[tk] is an array of records
TxListOf(m, tk) ==
  IF Has(m.eng.transactionList, tk) THEN m.eng.transactionList[tk] ELSE <<>>

\* findTransaction(tk, txid): the index of the record of that id, 0 for the
\* code's -1
findTransaction(m, tk, txid) ==
  LET list == TxListOf(m, tk)
      hits == {i \in 1 .. Len(list) : list[i].txid = txid}
  IN IF hits = {} THEN 0 ELSE CHOOSE i \in hits : \A j \in hits : i <= j

\* addTransaction(tk, tx): a record of an unseen id is pushed, a record of a
\* known id whose fields changed is updated in place; either one joins
\* transactionsChangedArray
addTransaction(m, tk, tx) ==
  LET list == TxListOf(m, tk)
      idx == findTransaction(m, tk, tx.txid)
  IN IF idx = 0
     THEN [m EXCEPT
             !.eng.transactionList = Put(@, tk, Append(list, tx)),
             !.eng.transactionsChangedArray = Append(@, tx)]
     ELSE IF list[idx] = tx THEN m
     ELSE [m EXCEPT
             !.eng.transactionList = Put(@, tk, [list EXCEPT ![idx] = tx]),
             !.eng.transactionsChangedArray = Append(@, tx)]

\* checkDroppedTransactionsThrottled(): the stale-pending rollback.  The age
\* of a pending record is not part of the state, so no record is stale; the
\* call itself is kept in the trace.
checkDroppedTransactionsThrottled(m) ==
  Emit(m, [call |-> "checkDroppedTransactionsThrottled",
           blockHeight |-> m.wld.blockHeight])

\* super.clearBlockchainCache(): a fresh walletLocalData, empty transaction
\* lists and check statuses, wallet data marked dirty
superClearBlockchainCache(m) ==
  [m EXCEPT
     !.wld = InitWalletLocalData,
     !.eng.walletLocalDataDirty = TRUE,
     !.eng.transactionList = EmptyObj,
     !.eng.tokenCheckBalanceStatus = EmptyObj,
     !.eng.tokenCheckTransactionsStatus = EmptyObj]

---------------------------------------------------------------------------
(* EthereumEngine *)

\* Faulty variant: exact string comparison instead of bns.eq
BalanceDiffersAsStrings(balance, stored) == balance # stored

BalanceDiffers(balance, stored) == ~bnsEq(balance, stored)

\* Faulty variant: onBalanceChanged is raised for an equal balance too
updateBalanceAlwaysNotifies(m, tk, balance) ==
  LET m1 == IF ~Has(m.wld.totalBalances, tk)
            THEN [m EXCEPT !.wld.totalBalances = Put(@, tk, <<0>>)]
            ELSE m
  IN [Emit([m1 EXCEPT !.wld.totalBalances = Put(@, tk, balance)],
           [cb |-> "onBalanceChanged", tk |-> tk, balance |-> balance])
        EXCEPT !.eng.tokenCheckBalanceStatus = Put(@, tk, 1)]

updateBalance(m, tk, balance) ==
  LET m1 == IF ~Has(m.wld.totalBalances, tk)
            THEN [m EXCEPT !.wld.totalBalances = Put(@, tk, <<0>>)]
            ELSE m
      m2 == IF BalanceDiffers(balance, m1.wld.totalBalances[tk])
            THEN Emit([m1 EXCEPT !.wld.totalBalances = Put(@, tk, balance)],
                      [cb |-> "onBalanceChanged", tk |-> tk,
                       balance |-> balance])
            ELSE m1
  IN [m2 EXCEPT !.eng.tokenCheckBalanceStatus = Put(@, tk, 1)]

clearBlockchainCache(m) ==
  [superClearBlockchainCache(m) EXCEPT
     !.wld.nextNonce = 0,
     !.wld.unconfirmedNextNonce = 0]

\* Faulty variant: the pending-spend count is not consulted
UseUnconfirmedNonceAnyPending(wld) ==
  wld.unconfirmedNextNonce > wld.nextNonce

\* Faulty variant: the unconfirmed nonce is not compared with the confirmed one
UseUnconfirmedNonceAnyOrder(wld) ==
  Truthy(wld.numUnconfirmedSpendTxs)

UseUnconfirmedNonce(wld) ==
  /\ Truthy(wld.numUnconfirmedSpendTxs)
  /\ wld.unconfirmedNextNonce > wld.nextNonce

\* Faulty variant: the cap is reached one allocation late
WithinPendingCapLate(diff) == diff <= MAX_NONCE_DIFF + 1

\* Faulty variant: the cap is reached one allocation early
WithinPendingCapStrict(diff) == diff < MAX_NONCE_DIFF

WithinPendingCap(diff) == diff <= MAX_NONCE_DIFF

\* Faulty variant: a refused allocation still uses up a nonce
signTxAdvancesOnError(m) ==
  IF UseUnconfirmedNonce(m.wld)
  THEN LET diff == m.wld.unconfirmedNextNonce - m.wld.nextNonce IN
       IF WithinPendingCap(diff)
       THEN [m |-> [m EXCEPT
                      !.wld.unconfirmedNextNonce = @ + 1,
                      !.eng.walletLocalDataDirty = TRUE],
             ok |-> TRUE, nonce |-> m.wld.unconfirmedNextNonce]
       ELSE [m |-> [m EXCEPT !.wld.unconfirmedNextNonce = @ + 1],
             ok |-> FALSE, nonce |-> -1,
             error |-> "ErrorExcessivePendingSpends"]
  ELSE [m |-> [m EXCEPT !.wld.unconfirmedNextNonce = m.wld.nextNonce + 1],
        ok |-> TRUE, nonce |-> m.wld.nextNonce]

\* The nonce part of signTx: the machine after it and the nonce it signs
\* with, or the error it throws
signTx(m) ==
  IF UseUnconfirmedNonce(m.wld)
  THEN LET diff == m.wld.unconfirmedNextNonce - m.wld.nextNonce IN
       IF WithinPendingCap(diff)
       THEN [m |-> [m EXCEPT
                      !.wld.unconfirmedNextNonce = @ + 1,
                      !.eng.walletLocalDataDirty = TRUE],
             ok |-> TRUE, nonce |-> m.wld.unconfirmedNextNonce]
       ELSE [m |-> m, ok |-> FALSE, nonce |-> -1,
             error |-> "ErrorExcessivePendingSpends"]
  ELSE [m |-> [m EXCEPT !.wld.unconfirmedNextNonce = m.wld.nextNonce + 1],
        ok |-> TRUE, nonce |-> m.wld.nextNonce]

---------------------------------------------------------------------------
(* EthereumNetwork.processEthereumNetworkUpdate *)

\* Faulty variant: the height is stored before the dropped-transaction check
MergeBlockHeightUpdateFirst(m, nowArg, upd) ==
  IF Has(upd, "blockHeight") /\ Truthy(upd.blockHeight)
       /\ m.wld.blockHeight # upd.blockHeight
  THEN LET m1 == [m EXCEPT !.needs.blockHeightLastChecked = nowArg,
                           !.wld.blockHeight = upd.blockHeight]
           m2 == checkDroppedTransactionsThrottled(m1)
           m3 == [m2 EXCEPT !.eng.walletLocalDataDirty = TRUE]
       IN Emit(m3, [cb |-> "onBlockHeightChanged",
                    blockHeight |-> m3.wld.blockHeight])
  ELSE m

MergeBlockHeight(m, nowArg, upd) ==
  IF Has(upd, "blockHeight") /\ Truthy(upd.blockHeight)
       /\ m.wld.blockHeight # upd.blockHeight
  THEN LET m1 == [m EXCEPT !.needs.blockHeightLastChecked = nowArg]
           m2 == checkDroppedTransactionsThrottled(m1)
           m3 == [m2 EXCEPT !.wld.blockHeight = upd.blockHeight,
                            !.eng.walletLocalDataDirty = TRUE]
       IN Emit(m3, [cb |-> "onBlockHeightChanged",
                    blockHeight |-> m3.wld.blockHeight])
  ELSE m

\* Faulty variant: the merge also raises unconfirmedNextNonce to the merged nonce
MergeNonceReconciling(m, nowArg, upd) ==
  IF Has(upd, "nonce")
  THEN [m EXCEPT !.needs.nonceLastChecked = nowArg,
                 !.wld.nextNonce = upd.nonce,
                 !.wld.unconfirmedNextNonce =
                     IF @ >= upd.nonce THEN @ ELSE upd.nonce,
                 !.eng.walletLocalDataDirty = TRUE]
  ELSE m

\* Faulty variant: a fact without a nonce resets the confirmed nonce
MergeNonceResetsWhenAbsent(m, nowArg, upd) ==
  IF Has(upd, "nonce")
  THEN [m EXCEPT !.needs.nonceLastChecked = nowArg,
                 !.wld.nextNonce = upd.nonce,
                 !.eng.walletLocalDataDirty = TRUE]
  ELSE [m EXCEPT !.wld.nextNonce = 0]

\* The nonce is a decimal string, so a nonce that is present is truthy
MergeNonce(m, nowArg, upd) ==
  IF Has(upd, "nonce")
  THEN [m EXCEPT !.needs.nonceLastChecked = nowArg,
                 !.wld.nextNonce = upd.nonce,
                 !.eng.walletLocalDataDirty = TRUE]
  ELSE m

RECURSIVE MergeTokenBalKeys(_, _, _, _)
MergeTokenBalKeys(m, nowArg, tokenBal, keys) ==
  IF keys = <<>> THEN m
  ELSE LET tk == Head(keys)
           m1 == [m EXCEPT !.needs.tokenBalLastChecked = Put(@, tk, nowArg)]
       IN MergeTokenBalKeys(updateBalance(m1, tk, tokenBal[tk]), nowArg,
                            tokenBal, Tail(keys))

\* Faulty variant: every enabled token is stamped as checked
MergeTokenBalStampsAll(m, nowArg, upd) ==
  IF Has(upd, "tokenBal")
  THEN [MergeTokenBalKeys(m, nowArg, upd.tokenBal, ObjectKeys(upd.tokenBal))
          EXCEPT !.needs.tokenBalLastChecked = [tk \in Tokens |-> nowArg]]
  ELSE m

MergeTokenBal(m, nowArg, upd) ==
  IF Has(upd, "tokenBal")
  THEN MergeTokenBalKeys(m, nowArg, upd.tokenBal, ObjectKeys(upd.tokenBal))
  ELSE m

\* Faulty variant: the loop stops after the first record of the batch
AddTransactionsFirstOnly(m, tk, txs) ==
  IF Len(txs) = 0 THEN m ELSE addTransaction(m, tk, txs[1])

\* for (const tx of edgeTransactions) addTransaction(tk, tx): the loop over
\* a batch is the loop over its first half followed, from the machine that
\* one leaves, by the loop over its second half.  (Halving keeps the
\* evaluation of a batch of several pages shallow; the test on m1 has it
\* evaluated before the second half starts.)
RECURSIVE AddTransactions(_, _, _)
AddTransactions(m, tk, txs) ==
  IF Len(txs) = 0 THEN m
  ELSE IF Len(txs) = 1 THEN addTransaction(m, tk, txs[1])
  ELSE LET half == Len(txs) \div 2
           m1 == AddTransactions(m, tk, SubSeq(txs, 1, half))
       IN IF DOMAIN m1 = DOMAIN m
          THEN AddTransactions(m1, tk, SubSeq(txs, half + 1, Len(txs)))
          ELSE m1

RECURSIVE MergeTokenTxsKeys(_, _, _, _, _)
MergeTokenTxsKeys(m, nowArg, tokenTxs, keys, preUpdateBlockHeight) ==
  IF keys = <<>> THEN m
  ELSE LET tk == Head(keys)
           m1 == [m EXCEPT
                    !.needs.tokenTxsLastChecked = Put(@, tk, nowArg),
                    !.eng.tokenCheckTransactionsStatus = Put(@, tk, 1)]
           tuple == tokenTxs[tk]
           m2 == IF Has(tuple, "edgeTransactions")
                 THEN [AddTransactions(m1, tk, tuple.edgeTransactions) EXCEPT
                         !.wld.lastTransactionQueryHeight =
                             Put(@, tk, preUpdateBlockHeight)]
                 ELSE m1
       IN MergeTokenTxsKeys(m2, nowArg, tokenTxs, Tail(keys),
                            preUpdateBlockHeight)

\* Faulty variant: the height at merge time is recorded
MergeTokenTxsAtMergeHeight(m, nowArg, upd, preUpdateBlockHeight) ==
  IF Has(upd, "tokenTxs")
  THEN MergeTokenTxsKeys(m, nowArg, upd.tokenTxs, ObjectKeys(upd.tokenTxs),
                         m.wld.blockHeight)
  ELSE m

MergeTokenTxs(m, nowArg, upd, preUpdateBlockHeight) ==
  IF Has(upd, "tokenTxs")
  THEN MergeTokenTxsKeys(m, nowArg, upd.tokenTxs, ObjectKeys(upd.tokenTxs),
                         preUpdateBlockHeight)
  ELSE m

\* Faulty variant: the changed records are notified and stay in the array
FlushTransactionsChangedKept(m) ==
  IF Len(m.eng.transactionsChangedArray) > 0
  THEN Emit(m, [cb |-> "onTransactionsChanged",
                txs |-> m.eng.transactionsChangedArray])
  ELSE m

FlushTransactionsChanged(m) ==
  IF Len(m.eng.transactionsChangedArray) > 0
  THEN [Emit(m, [cb |-> "onTransactionsChanged",
                 txs |-> m.eng.transactionsChangedArray])
          EXCEPT !.eng.transactionsChangedArray = <<>>]
  ELSE m

processEthereumNetworkUpdate(m, nowArg, upd, preUpdateBlockHeight) ==
  FlushTransactionsChanged(
    MergeTokenTxs(
      MergeTokenBal(
        MergeNonce(
          MergeBlockHeight(m, nowArg, upd),
          nowArg, upd),
        nowArg, upd),
      nowArg, upd, preUpdateBlockHeight))

---------------------------------------------------------------------------
(* Initial state: the engine as constructed, before startEngine *)

NonceState(wld) ==
  [nextNonce |-> wld.nextNonce,
   unconfirmedNextNonce |-> wld.unconfirmedNextNonce,
   numUnconfirmedSpendTxs |-> wld.numUnconfirmedSpendTxs]

NewRun(wld) ==
  [start |-> NonceState(wld), count |-> 0, pendingAfterFirst |-> TRUE]

\* needsLoop is not running; no fetch was ever started
\* A needsLoop() call that is not running
NoInstance ==
  [pc |-> "none", i |-> 1, fetching |-> FALSE, preUpdateBlockHeight |-> 0,
   checkNow |-> 0]

InitLoop ==
  [pc |-> "idle", i |-> 1, fetching |-> FALSE, preUpdateBlockHeight |-> 0,
   checkNow |-> 0, passes |-> 0, started |-> EmptyObj,
   instances |-> [k \in 1 .. MaxLoops |-> NoInstance]]

\* No asyncWaterfall or promiseAny call was made
InitRace ==
  [kind |-> "none", caller |-> "none", tk |-> "", n |-> 0, outcome |-> <<>>,
   next |-> 1, inflight |-> {}, invoked |-> <<>>, errors |-> <<>>,
   status |-> "idle", value |-> EmptyObj, returned |-> [kind |-> "none"],
   surfaced |-> [kind |-> "none"]]

Init ==
  /\ walletLocalData = InitWalletLocalData
  /\ ethNeeds = InitEthNeeds
  /\ engine = InitEngine
  /\ trace = <<>>
  /\ lastCall = [op |-> "init", seq |-> 0]
  /\ nonceRun = NewRun(InitWalletLocalData)
  /\ now = StartTime
  /\ loop = InitLoop
  /\ race = InitRace

\* Every handler call is a step of its own
NextSeq == 1 - lastCall.seq

---------------------------------------------------------------------------
(* Fetched facts *)

Server == "etherscan"

BalStrings == UNION {[1 .. n -> Digits] : n \in 1 .. MaxBalLen}

\* Records a provider can report: t1 unconfirmed or confirmed in block 1, t2
\* unconfirmed
TxRecords ==
  {[txid |-> "t1", blockHeight |-> 0],
   [txid |-> "t1", blockHeight |-> 1],
   [txid |-> "t2", blockHeight |-> 0]}

Batches(n) == UNION {[1 .. k -> TxRecords] : k \in 0 .. n}

PartialObjs(keys, vals) == UNION {[d -> vals] : d \in (SUBSET keys) \ {{}}}

EmptyFact == EmptyObj

HeightFacts ==
  {[blockHeight |-> h, server |-> Server] : h \in 0 .. MaxHeight}

NonceFacts ==
  {[nonce |-> n, server |-> Server] : n \in 0 .. MaxMergeNonce}

TokenBalFacts ==
  {[tokenBal |-> f, server |-> Server] : f \in PartialObjs(Tokens, BalStrings)}

TxTuples(n) ==
  {[blockHeight |-> 0, edgeTransactions |-> b] : b \in Batches(n)}

\* One asset's batch (the fixed-page path), or a batch of at most one record
\* for each asset (a feed that answers for several assets)
TokenTxsFacts ==
  {[tokenTxs |-> f, server |-> Server] :
     f \in UNION {[{tk} -> TxTuples(MaxBatch)] : tk \in Tokens}}
  \cup
  {[tokenTxs |-> f, server |-> Server] : f \in [Tokens -> TxTuples(1)]}

\* processEthereumNetworkUpdate runs on a fact of the set facts, for a check
\* that read the clock now and sampled the height pre before it started
MergeFact(facts) ==
  \E upd \in facts, pre \in 0 .. MaxHeight :
    LET m == processEthereumNetworkUpdate(Machine, now, upd, pre)
    IN /\ pre <= walletLocalData.blockHeight
       /\ Apply(m)
       /\ lastCall' = [op |-> "processEthereumNetworkUpdate",
                       seq |-> 0, upd |-> upd, now |-> now,
                       preUpdateBlockHeight |-> pre,
                       repeat |-> /\ lastCall.op = "processEthereumNetworkUpdate"
                                  /\ lastCall.upd = upd,
                       refusing |-> ~signTx(Machine).ok]
       /\ nonceRun' = NewRun(m.wld)
       /\ UNCHANGED <<now, loop, race>>

MergeNonceFact == MergeFact(NonceFacts)

MergeBalFact == MergeFact(TokenBalFacts)

MergeTxsFact == MergeFact(TokenTxsFacts)

MergeHeightFact == MergeFact(HeightFacts)

MergeEmptyFact == MergeFact({EmptyFact})

---------------------------------------------------------------------------
(* The spend path *)

\* signTx is called for one spend; afterRelease tells that it follows a
\* merge before which signTx would have thrown
SignTx ==
  LET r == signTx(Machine)
  IN /\ r.m.wld.unconfirmedNextNonce <= MaxNonce
     /\ nonceRun.count < MaxRun
     /\ Apply(r.m)
     /\ lastCall' = [op |-> "signTx", seq |-> NextSeq, ok |-> r.ok,
                     nonce |-> r.nonce,
                     afterRelease |-> /\ "refusing" \in DOMAIN lastCall
                                      /\ lastCall.refusing]
     /\ nonceRun' =
          [nonceRun EXCEPT
             !.count = @ + 1,
             !.pendingAfterFirst =
                 @ /\ (nonceRun.count = 0
                         \/ walletLocalData.numUnconfirmedSpendTxs > 0)]
     /\ UNCHANGED <<now, loop, race>>

ClearBlockchainCache ==
  LET m == clearBlockchainCache(Machine)
  IN /\ Apply(m)
     /\ lastCall' = [op |-> "clearBlockchainCache", seq |-> NextSeq]
     /\ nonceRun' = NewRun(m.wld)
     /\ UNCHANGED <<now, loop, race>>

\* The transaction list gains an unconfirmed spend (a signed spend is saved)
AddPendingSpend ==
  /\ walletLocalData.numUnconfirmedSpendTxs < MaxPending
  /\ walletLocalData' =
       [walletLocalData EXCEPT !.numUnconfirmedSpendTxs = @ + 1]
  /\ trace' = <<>>
  /\ lastCall' = [op |-> "addPendingSpend", seq |-> NextSeq]
  /\ UNCHANGED <<ethNeeds, engine, nonceRun, now, loop, race>>

\* An unconfirmed spend of the transaction list is confirmed or dropped
RemovePendingSpend ==
  /\ walletLocalData.numUnconfirmedSpendTxs > 0
  /\ walletLocalData' =
       [walletLocalData EXCEPT !.numUnconfirmedSpendTxs = @ - 1]
  /\ trace' = <<>>
  /\ lastCall' = [op |-> "removePendingSpend", seq |-> NextSeq]
  /\ UNCHANGED <<ethNeeds, engine, nonceRun, now, loop, race>>

---------------------------------------------------------------------------
(* EthereumNetwork.needsLoop *)

\* The resource the loop is at: the check and, for a per-token check, the
\* token
CurrentToken == enabledTokens[loop.i]

CurrentKey ==
  IF loop.pc \in {"bal", "txs"} THEN <<loop.pc, CurrentToken>>
  ELSE <<loop.pc>>

\* The lastChecked argument of checkAndUpdate (a missing one defaults to 0)
LastChecked(needs, key) ==
  CASE key[1] = "height" -> needs.blockHeightLastChecked
    [] key[1] = "nonce" -> needs.nonceLastChecked
    [] key[1] = "bal" ->
         IF Has(needs.tokenBalLastChecked, key[2])
         THEN needs.tokenBalLastChecked[key[2]] ELSE 0
    [] key[1] = "txs" ->
         IF Has(needs.tokenTxsLastChecked, key[2])
         THEN needs.tokenTxsLastChecked[key[2]] ELSE 0

PollMillisec(key) ==
  CASE key[1] = "height" -> BLOCKHEIGHT_POLL_MILLISECONDS
    [] key[1] = "nonce" -> NONCE_POLL_MILLISECONDS
    [] key[1] = "bal" -> BAL_POLL_MILLISECONDS
    [] key[1] = "txs" -> TXS_POLL_MILLISECONDS

\* Faulty variant: a check is due as soon as the interval has elapsed
IsDueAtInterval(nowArg, lastChecked, pollMillisec) ==
  nowArg - lastChecked >= pollMillisec

IsDue(nowArg, lastChecked, pollMillisec) == nowArg - lastChecked > pollMillisec

\* Faulty variant: the history check of a token comes before its balance
\* check
AfterCheckHistoryFirst(l) ==
  CASE l.pc = "height" -> [l EXCEPT !.pc = "nonce", !.fetching = FALSE]
    [] l.pc = "nonce" -> [l EXCEPT !.pc = "txs", !.i = 1, !.fetching = FALSE]
    [] l.pc = "txs" -> [l EXCEPT !.pc = "bal", !.fetching = FALSE]
    [] l.pc = "bal" ->
         IF l.i < Len(enabledTokens)
         THEN [l EXCEPT !.pc = "txs", !.i = @ + 1, !.fetching = FALSE]
         ELSE [l EXCEPT !.pc = "snooze", !.fetching = FALSE]

\* The statement after the current checkAndUpdate
AfterCheck(l) ==
  CASE l.pc = "height" -> [l EXCEPT !.pc = "nonce", !.fetching = FALSE]
    [] l.pc = "nonce" -> [l EXCEPT !.pc = "bal", !.i = 1, !.fetching = FALSE]
    [] l.pc = "bal" -> [l EXCEPT !.pc = "txs", !.fetching = FALSE]
    [] l.pc = "txs" ->
         IF l.i < Len(enabledTokens)
         THEN [l EXCEPT !.pc = "bal", !.i = @ + 1, !.fetching = FALSE]
         ELSE [l EXCEPT !.pc = "snooze", !.fetching = FALSE]

\* What the network can answer to the fetch of a key; a fetcher whose
\* providers all fail returns the empty fact
PollBatches == {<<>>, <<[txid |-> "t1", blockHeight |-> 1]>>}

FetchAnswers(key) ==
  CASE key[1] = "height" ->
         {[blockHeight |-> h, server |-> Server] : h \in 1 .. MaxHeight}
    [] key[1] = "nonce" ->
         {[nonce |-> n, server |-> Server] :
            n \in {walletLocalData.nextNonce,
                   walletLocalData.nextNonce + 1} \cap (0 .. 1)}
    [] key[1] = "bal" ->
         {[tokenBal |-> (key[2] :> <<1>>), server |-> Server],
          [tokenBal |-> [tk \in Tokens |-> <<1>>], server |-> "blockchair"]}
    [] key[1] = "txs" ->
         {[tokenTxs |->
             (key[2] :> [blockHeight |-> 0, edgeTransactions |-> b]),
           server |-> Server] : b \in PollBatches}

Failures == Cardinality({k \in DOMAIN loop.started : loop.started[k].failed})

\* A needsLoop() call in the stretch from its while test to the checkFunc
\* call of its first checkAndUpdate, which runs without an await
InSyncStretch(l) == l.pc = "while" \/ (l.pc = "height" /\ ~l.fetching)

\* No needsLoop() call is in that stretch: other code can run

LoopSuspended ==
  /\ ~InSyncStretch(loop)
  /\ \A k \in 1 .. MaxLoops : ~InSyncStretch(loop.instances[k])

\* startEngine()
StartEngine ==
  /\ ~engine.engineOn
  /\ LoopSuspended
  /\ engine' = [engine EXCEPT !.engineOn = TRUE]
  /\ trace' = <<>>
  /\ lastCall' = [op |-> "startEngine", seq |-> 0]
  /\ UNCHANGED <<walletLocalData, ethNeeds, nonceRun, now, loop, race>>

\* killEngine()
KillEngine ==
  /\ engine.engineOn
  /\ LoopSuspended
  /\ engine' = [engine EXCEPT !.engineOn = FALSE]
  /\ trace' = <<>>
  /\ lastCall' = [op |-> "killEngine", seq |-> 0]
  /\ UNCHANGED <<walletLocalData, ethNeeds, nonceRun, now, loop, race>>

\* needsLoop() is called
NeedsLoop ==
  /\ loop.pc = "idle"
  /\ loop' = [loop EXCEPT !.pc = "while"]
  /\ trace' = <<>>
  /\ lastCall' = [op |-> "needsLoop", seq |-> 0]
  /\ UNCHANGED <<walletLocalData, ethNeeds, engine, nonceRun, now, race>>

\* while (engineOn): a pass starts and samples the block height
LoopEnter ==
  /\ loop.pc = "while"
  /\ engine.engineOn
  /\ loop.passes < MaxPasses
  /\ loop' = [loop EXCEPT
                !.pc = "height",
                !.passes = @ + 1,
                !.preUpdateBlockHeight = walletLocalData.blockHeight]
  /\ trace' = <<>>
  /\ lastCall' = [op |-> "pass", seq |-> 0]
  /\ UNCHANGED <<walletLocalData, ethNeeds, engine, nonceRun, now, race>>

\* while (engineOn) is false: needsLoop returns
LoopExit ==
  /\ loop.pc = "while"
  /\ ~engine.engineOn
  /\ loop' = [loop EXCEPT !.pc = "idle"]
  /\ trace' = <<>>
  /\ lastCall' = [op |-> "return", seq |-> 0]
  /\ UNCHANGED <<walletLocalData, ethNeeds, engine, nonceRun, now, race>>

\* checkAndUpdate reads the clock and finds the check not due
CheckNotDue ==
  /\ loop.pc \in {"height", "nonce", "bal", "txs"}
  /\ ~loop.fetching
  /\ ~IsDue(now, LastChecked(ethNeeds, CurrentKey), PollMillisec(CurrentKey))
  /\ loop' = AfterCheck([loop EXCEPT !.checkNow = now])
  /\ trace' = <<>>
  /\ lastCall' = [op |-> "notDue", seq |-> 0]
  /\ UNCHANGED <<walletLocalData, ethNeeds, engine, nonceRun, now, race>>

\* checkAndUpdate reads the clock, finds the check due and calls checkFunc
CheckDue ==
  /\ loop.pc \in {"height", "nonce", "bal", "txs"}
  /\ ~loop.fetching
  /\ IsDue(now, LastChecked(ethNeeds, CurrentKey), PollMillisec(CurrentKey))
  /\ loop' = [loop EXCEPT
                !.checkNow = now,
                !.fetching = TRUE,
                !.started = Put(@, CurrentKey,
                                [at |-> now,
                                 failed |-> IF Has(@, CurrentKey)
                                            THEN @[CurrentKey].failed
                                            ELSE FALSE])]
  /\ trace' = <<>>
  /\ lastCall' = [op |-> "checkFunc", seq |-> 0]
  /\ UNCHANGED <<walletLocalData, ethNeeds, engine, nonceRun, now, race>>

\* The rest of a checkAndUpdate whose checkFunc resolved to upd
Merged(upd, failed) ==
  LET m == processEthereumNetworkUpdate(Machine, loop.checkNow, upd,
                                        loop.preUpdateBlockHeight)
  IN /\ Apply(m)
     /\ loop' = AfterCheck([loop EXCEPT
                              !.started[CurrentKey].failed = @ \/ failed])
     /\ lastCall' = [op |-> "processEthereumNetworkUpdate",
                     seq |-> 0, upd |-> upd, now |-> loop.checkNow,
                     preUpdateBlockHeight |-> loop.preUpdateBlockHeight,
                     repeat |-> FALSE]
     /\ nonceRun' = NewRun(m.wld)
     /\ UNCHANGED <<now, race>>

\* checkFunc resolves to what a provider answered
FetchAnswered ==
  /\ loop.fetching
  /\ \E upd \in FetchAnswers(CurrentKey) : Merged(upd, FALSE)

\* Every provider of checkFunc failed: it resolves to {}
FetchFailed ==
  /\ loop.fetching
  /\ \/ loop.started[CurrentKey].failed
     \/ Failures < MaxFailures
  /\ Merged(EmptyFact, TRUE)

\* snooze(1000): at least a second later the loop tests engineOn again
Snooze ==
  /\ loop.pc = "snooze"
  /\ \E d \in {1000, 20000} :
       /\ now + d <= StartTime + MaxElapsed
       /\ now' = now + d
  /\ loop' = [loop EXCEPT !.pc = "while"]
  /\ trace' = <<>>
  /\ lastCall' = [op |-> "snooze", seq |-> 0]
  /\ UNCHANGED <<walletLocalData, ethNeeds, engine, nonceRun, race>>

---------------------------------------------------------------------------
(* asyncWaterfall and promiseAny (common/utils.js) and their callers *)

\* What one candidate does when it is invoked: it resolves to a height or it
\* rejects (transport error, invalid JSON)
CandidateOutcomes ==
  {[ok |-> FALSE, result |-> 0]} \cup
  {[ok |-> TRUE, result |-> h] : h \in 1 .. MaxHeight}

AllProvidersFailed == [kind |-> "AllProvidersFailed", message |-> ""]

\* The candidates of checkBlockHeight, in the order of the array
checkBlockHeightFuncs ==
  <<"checkBlockHeightEthscan", "checkBlockHeightBlockchair">>

\* The candidates of checkTokenBal(tk), in the order of the array
checkTokenBalFuncs == <<"checkTokenBalEthscan", "checkTokenBalBlockchair">>

\* The decimal string of an answered balance
BalanceString(result) == [j \in 1 .. result |-> 1]

\* The promises of multicastServers('broadcastTx'), in the order of the array
broadcastTxServers == <<"infura", "etherscan", "blockcypher">>

\* JSON values as far as the code looks at them: typeof and the value
JsString(str) == [type |-> "string", v |-> str]

JsNumber(str) == [type |-> "number", v |-> str]

\* A thrown value: jsonObj.error as the endpoint sent it, or a new Error
AppError(err) == [kind |-> "app", message |-> err.v]

InvalidReturnValue ==
  [kind |-> "Error", message |-> "Invalid return value on transaction send"]

FetchError == [kind |-> "Error", message |-> "fetch failed"]

\* What a submission endpoint can answer: the fetch throws, or it returns a
\* JSON object with or without error, result and tx
BroadcastJson ==
  {EmptyObj,
   "error" :> JsString("nonce too low"),
   "result" :> JsString("0xhash"),
   "result" :> JsNumber("1"),
   ("error" :> JsString("nonce too low")) @@ ("result" :> JsString("0xhash")),
   "tx" :> ("hash" :> JsString("0xhash")),
   "tx" :> EmptyObj,
   ("error" :> JsString("nonce too low"))
     @@ ("tx" :> ("hash" :> JsString("0xhash")))}

BroadcastResponses ==
  {[threw |-> TRUE, json |-> EmptyObj]} \cup
  {[threw |-> FALSE, json |-> j] : j \in BroadcastJson}

Resolves(jsonObj) == [ok |-> TRUE, result |-> jsonObj, error |-> FetchError]

Throws(jsonObj, err) == [ok |-> FALSE, result |-> jsonObj, error |-> err]

\* Faulty variant: a string result wins over an error field
broadcastResultBeforeError(resp) ==
  IF resp.threw THEN Throws(resp.json, FetchError)
  ELSE IF Has(resp.json, "result") /\ resp.json.result.type = "string"
  THEN Resolves(resp.json)
  ELSE IF Has(resp.json, "error")
  THEN Throws(resp.json, AppError(resp.json.error))
  ELSE Throws(resp.json, InvalidReturnValue)

\* broadcastEtherscan: what the promise settles to for an answer
broadcastEtherscan(resp) ==
  IF resp.threw THEN Throws(resp.json, FetchError)
  ELSE IF Has(resp.json, "error")
  THEN Throws(resp.json, AppError(resp.json.error))
  ELSE IF Has(resp.json, "result") /\ resp.json.result.type = "string"
  THEN Resolves(resp.json)
  ELSE Throws(resp.json, InvalidReturnValue)

broadcastInfura(resp) ==
  IF resp.threw THEN Throws(resp.json, FetchError)
  ELSE IF Has(resp.json, "error")
  THEN Throws(resp.json, AppError(resp.json.error))
  ELSE IF Has(resp.json, "result") /\ resp.json.result.type = "string"
  THEN Resolves(resp.json)
  ELSE Throws(resp.json, InvalidReturnValue)

broadcastBlockCypher(resp) ==
  IF resp.threw THEN Throws(resp.json, FetchError)
  ELSE IF Has(resp.json, "error")
  THEN Throws(resp.json, AppError(resp.json.error))
  ELSE IF /\ Has(resp.json, "tx")
          /\ Has(resp.json.tx, "hash")
          /\ resp.json.tx.hash.type = "string"
  THEN Resolves(resp.json)
  ELSE Throws(resp.json, InvalidReturnValue)

\* The three promises of multicastServers('broadcastTx') for three answers
BroadcastOutcome(responses) ==
  <<broadcastInfura(responses[1]), broadcastEtherscan(responses[2]),
    broadcastBlockCypher(responses[3])>>

\* The value candidate i resolves to
CandidateValue(r, i) ==
  CASE r.caller = "checkBlockHeight" ->
         [blockHeight |-> r.outcome[i].result,
          server |-> checkBlockHeightFuncs[i]]
    [] r.caller = "checkTokenBal" ->
         [tokenBal |->
            IF i = 1 THEN (r.tk :> BalanceString(r.outcome[i].result))
            ELSE [t \in Tokens |-> BalanceString(r.outcome[i].result)],
          server |-> checkTokenBalFuncs[i]]
    [] r.caller = "broadcastTx" ->
         [result |-> r.outcome[i].result, server |-> broadcastTxServers[i]]
    [] OTHER -> [result |-> r.outcome[i].result, server |-> i]

NewRace(kind, caller, tk, outcome) ==
  [kind |-> kind, caller |-> caller, tk |-> tk, n |-> Len(outcome),
   outcome |-> outcome, next |-> 1, inflight |-> {},
   invoked |-> [i \in 1 .. Len(outcome) |-> 0], errors |-> <<>>,
   status |-> "pending", value |-> EmptyObj, returned |-> [kind |-> "none"],
   surfaced |-> [kind |-> "none"]]

Invoke(r, i) ==
  [r EXCEPT !.inflight = @ \cup {i}, !.invoked[i] = @ + 1]

\* asyncWaterfall invokes its next candidate
asyncWaterfallInvoke(r) == Invoke(r, r.next)

\* Faulty variant: a success is kept but the remaining candidates are still tried
asyncWaterfallSettledKeepsGoing(r, i) ==
  LET r1 == [r EXCEPT !.inflight = {}, !.next = i + 1]
      r2 == IF r.outcome[i].ok
            THEN [r1 EXCEPT !.value = CandidateValue(r, i)]
            ELSE [r1 EXCEPT !.errors = Append(@, i)]
  IN IF i < r.n THEN r2
     ELSE [r2 EXCEPT !.status = IF Len(r2.errors) = r.n
                                THEN "rejected" ELSE "resolved"]

\* The candidate asyncWaterfall waits for settles: a success is the result, a
\* failure is recorded and the next candidate is tried; with none left the
\* call fails with every recorded error
asyncWaterfallSettled(r, i) ==
  IF r.outcome[i].ok
  THEN [r EXCEPT !.inflight = {}, !.status = "resolved",
                 !.value = CandidateValue(r, i)]
  ELSE LET r1 == [r EXCEPT !.inflight = {}, !.errors = Append(@, i),
                           !.next = i + 1]
       IN IF i = r.n THEN [r1 EXCEPT !.status = "rejected"] ELSE r1

\* Faulty variant: a result that arrives after the first success replaces it
promiseAnySettledLastWins(r, i) ==
  LET r1 == [r EXCEPT !.inflight = @ \ {i}]
  IN IF r.outcome[i].ok
     THEN [r1 EXCEPT !.status = "resolved", !.value = CandidateValue(r, i)]
     ELSE LET r2 == [r1 EXCEPT !.errors = Append(@, i)]
          IN IF r.status = "pending" /\ Len(r2.errors) = r.n
             THEN [r2 EXCEPT !.status = "rejected"] ELSE r2

\* One of the promises given to promiseAny settles: the first success is the
\* result, later results are discarded; when every promise has failed the
\* call fails with every recorded error
promiseAnySettled(r, i) ==
  LET r1 == [r EXCEPT !.inflight = @ \ {i}]
  IN IF r.outcome[i].ok
     THEN IF r.status = "pending"
          THEN [r1 EXCEPT !.status = "resolved",
                          !.value = CandidateValue(r, i)]
          ELSE r1
     ELSE LET r2 == [r1 EXCEPT !.errors = Append(@, i)]
          IN IF r.status = "pending" /\ Len(r2.errors) = r.n
             THEN [r2 EXCEPT !.status = "rejected"] ELSE r2

\* Faulty variant: the rejection of asyncWaterfall reaches the caller
checkBlockHeightRethrows(r) ==
  IF r.status = "resolved" THEN [kind |-> "fact", fact |-> r.value]
  ELSE [kind |-> "thrown", errors |-> r.errors]

\* checkBlockHeight: the result of asyncWaterfall, or {} from its catch
checkBlockHeight(r) ==
  IF r.status = "resolved" THEN [kind |-> "fact", fact |-> r.value]
  ELSE [kind |-> "fact", fact |-> EmptyFact]

\* checkTokenBal: the result of asyncWaterfall, or {} from its catch
checkTokenBal(r) ==
  IF r.status = "resolved" THEN [kind |-> "fact", fact |-> r.value]
  ELSE [kind |-> "fact", fact |-> EmptyFact]

\* multicastServers: out, the { result, server } of the winner; a rejection
\* is not caught
multicastServers(r) ==
  IF r.status = "resolved"
  THEN [kind |-> "value", value |-> r.value]
  ELSE [kind |-> "thrown", errors |-> r.errors]

\* What promiseAny rejects with when its last promise has failed: the error
\* of that promise when it is an application error, else the aggregate
promiseAnyRejection(r) ==
  LET last == r.outcome[r.errors[Len(r.errors)]].error
  IN IF last.kind = "app" THEN last ELSE AllProvidersFailed

\* EthereumEngine.broadcastTx: the transaction it was given, or whatever
\* multicastServers threw
broadcastTx(r) ==
  IF multicastServers(r).kind = "value"
  THEN [kind |-> "value", value |-> "edgeTransaction"]
  ELSE [kind |-> "thrown", value |-> promiseAnyRejection(r).kind,
        message |-> promiseAnyRejection(r).message]

RaceFree == race.status = "idle"

RaceFrame ==
  /\ trace' = <<>>
  /\ UNCHANGED <<walletLocalData, ethNeeds, engine, nonceRun, now, loop>>

\* checkBlockHeight() is called
CallCheckBlockHeight ==
  /\ RaceFree
  /\ \E outcome \in [1 .. Len(checkBlockHeightFuncs) -> CandidateOutcomes] :
       race' = NewRace("asyncWaterfall", "checkBlockHeight", "", outcome)
  /\ lastCall' = [op |-> "checkBlockHeight", seq |-> NextSeq]
  /\ RaceFrame

\* checkTokenBal(tk) is called
CallCheckTokenBal ==
  /\ RaceFree
  /\ \E tk \in Tokens :
       \E outcome \in [1 .. Len(checkTokenBalFuncs) -> CandidateOutcomes] :
         race' = NewRace("asyncWaterfall", "checkTokenBal", tk, outcome)
  /\ lastCall' = [op |-> "checkTokenBal", seq |-> NextSeq]
  /\ RaceFrame

\* multicastServers('eth_blockNumber') is called: asyncWaterfall runs over the
\* shuffled array of the configured servers
CallMulticastBlockNumber ==
  /\ RaceFree
  /\ \E n \in 2 .. MaxCandidates :
       \E outcome \in [1 .. n -> CandidateOutcomes] :
         race' = NewRace("asyncWaterfall", "eth_blockNumber", "", outcome)
  /\ lastCall' = [op |-> "multicastServers", seq |-> NextSeq]
  /\ RaceFrame

\* multicastServers('broadcastTx') is called: the three broadcasts are
\* started, then promiseAny waits for them
CallBroadcastTx ==
  /\ RaceFree
  /\ \E responses \in [1 .. Len(broadcastTxServers) -> BroadcastResponses] :
       race' = Invoke(Invoke(Invoke(
                 NewRace("promiseAny", "broadcastTx", "",
                         BroadcastOutcome(responses)), 1), 2), 3)
  /\ lastCall' = [op |-> "multicastServers", seq |-> NextSeq]
  /\ RaceFrame

AsyncWaterfallInvoke ==
  /\ race.kind = "asyncWaterfall"
  /\ race.status = "pending"
  /\ race.inflight = {}
  /\ race.next <= race.n
  /\ race' = asyncWaterfallInvoke(race)
  /\ lastCall' = [op |-> "invoke", seq |-> NextSeq]
  /\ RaceFrame

AsyncWaterfallSettle ==
  /\ race.kind = "asyncWaterfall"
  /\ \E i \in race.inflight : race' = asyncWaterfallSettled(race, i)
  /\ lastCall' = [op |-> "settle", seq |-> NextSeq]
  /\ RaceFrame

PromiseAnySettle ==
  /\ race.kind = "promiseAny"
  /\ \E i \in race.inflight : race' = promiseAnySettled(race, i)
  /\ lastCall' = [op |-> "settle", seq |-> NextSeq]
  /\ RaceFrame

\* The await of the caller resumes with the settled call
RaceReturn ==
  /\ race.status \in {"resolved", "rejected"}
  /\ race.returned.kind = "none"
  /\ race' = [race EXCEPT
                !.returned =
                    CASE race.caller = "checkBlockHeight" ->
                           checkBlockHeight(race)
                      [] race.caller = "checkTokenBal" -> checkTokenBal(race)
                      [] OTHER -> multicastServers(race),
                !.surfaced = IF race.caller = "broadcastTx"
                             THEN broadcastTx(race)
                             ELSE [kind |-> "none"]]
  /\ lastCall' = [op |-> "return", seq |-> NextSeq]
  /\ RaceFrame

\* The caller has its result and every candidate has settled: the call is
\* over
RaceDone ==
  /\ race.returned.kind # "none"
  /\ race.inflight = {}
  /\ race' = InitRace
  /\ lastCall' = [op |-> "done", seq |-> NextSeq]
  /\ RaceFrame

---------------------------------------------------------------------------
(* EthereumNetwork.checkTxsEthscan *)

getQueryHeightWithLookback(queryHeight) ==
  IF queryHeight > ADDRESS_QUERY_LOOKBACK_BLOCKS
  THEN queryHeight - ADDRESS_QUERY_LOOKBACK_BLOCKS
  ELSE 0

\* lastTransactionQueryHeight[tk]; undefined > 8 is false
StartBlockOf(wld, tk) ==
  IF Has(wld.lastTransactionQueryHeight, tk)
  THEN getQueryHeightWithLookback(wld.lastTransactionQueryHeight[tk])
  ELSE 0

\* What the explorer answers for one page: no answer from any server, an
\* answer that fails the schema, or len records
ShortLengths == {0, 1, NUM_TRANSACTIONS_TO_QUERY - 1}

FullPage == [threw |-> FALSE, valid |-> TRUE, len |-> NUM_TRANSACTIONS_TO_QUERY]

EmptyPage == [threw |-> FALSE, valid |-> TRUE, len |-> 0]

EndAnswers ==
  {[threw |-> TRUE, valid |-> FALSE, len |-> 0],
   [threw |-> FALSE, valid |-> FALSE, len |-> 0]} \cup
  {[threw |-> FALSE, valid |-> TRUE, len |-> n] : n \in ShortLengths}

\* The account's history as the explorer pages it (sort=asc, offset=50):
\* some full pages, the answer that is not a full page, and what the
\* explorer would answer for the page after that one
Feeds ==
  [full : 0 .. MaxPages, end : EndAnswers, after : {EmptyPage, FullPage}]

PageOf(feed, page) ==
  IF page <= feed.full THEN FullPage
  ELSE IF page = feed.full + 1 THEN feed.end
  ELSE IF page = feed.full + 2 THEN feed.after
  ELSE EmptyPage

\* Record i of a page, after processEtherscanTransaction: one record for each
\* record of the answer
PageRecord(page, i) ==
  [txid |-> (page - 1) * NUM_TRANSACTIONS_TO_QUERY + i, blockHeight |-> 1]

PageRecords(page, len) == [i \in 1 .. len |-> PageRecord(page, i)]

\* Faulty variant: only an empty page ends the loop
PageIsLastWhenEmpty(len) == len = 0

\* transactions.length < NUM_TRANSACTIONS_TO_QUERY
PageIsLast(len) == len < NUM_TRANSACTIONS_TO_QUERY

\* Faulty variant: a page that fails ends the loop with the records of the
\* pages before it
RECURSIVE EthscanPagesKeepingEarlier(_, _, _, _)
EthscanPagesKeepingEarlier(feed, page, requested, allTransactions) ==
  LET answer == PageOf(feed, page)
      asked == Append(requested, page)
  IN IF answer.threw \/ ~answer.valid
     THEN [kind |-> "fact", requested |-> asked,
           edgeTransactions |-> allTransactions]
     ELSE LET all == allTransactions \o PageRecords(page, answer.len)
          IN IF PageIsLast(answer.len)
             THEN [kind |-> "fact", requested |-> asked,
                   edgeTransactions |-> all]
             ELSE EthscanPagesKeepingEarlier(feed, page + 1, asked, all)

\* The while (1) loop from the given page on
RECURSIVE EthscanPages(_, _, _, _)
EthscanPages(feed, page, requested, allTransactions) ==
  LET answer == PageOf(feed, page)
      asked == Append(requested, page)
  IN IF answer.threw \/ ~answer.valid
     THEN [kind |-> "thrown", requested |-> asked, edgeTransactions |-> <<>>]
     ELSE LET all == allTransactions \o PageRecords(page, answer.len)
          IN IF PageIsLast(answer.len)
             THEN [kind |-> "fact", requested |-> asked,
                   edgeTransactions |-> all]
             ELSE EthscanPages(feed, page + 1, asked, all)

\* checkTxsEthscan(startBlock, currencyCode) against a feed
checkTxsEthscan(startBlock, currencyCode, tokenInfoKnown, feed) ==
  IF currencyCode # PRIMARY_CURRENCY /\ ~tokenInfoKnown
  THEN [kind |-> "fact", requested |-> <<>>, fact |-> EmptyFact]
  ELSE LET r == EthscanPages(feed, 1, <<>>, <<>>)
       IN IF r.kind = "thrown"
          THEN [kind |-> "thrown", requested |-> r.requested,
                fact |-> EmptyFact]
          ELSE [kind |-> "fact", requested |-> r.requested,
                fact |-> [tokenTxs |->
                            (currencyCode :>
                               [blockHeight |-> startBlock,
                                edgeTransactions |-> r.edgeTransactions]),
                          server |-> Server]]

\* checkTxs: the catch around asyncWaterfall
checkTxs(r) == IF r.kind = "fact" THEN r.fact ELSE EmptyFact

\* The first history check that finds something after a (re)sync, no
\* transaction being stored yet, with a first
\* candidate (Alethio) that failed: checkTxsEthscan runs, checkTxs returns
\* its fact or {} and checkAndUpdate merges it
CheckTxsByEthscan ==
  \E tk \in Tokens, tokenInfoKnown \in BOOLEAN, feed \in Feeds :
    LET r == checkTxsEthscan(StartBlockOf(walletLocalData, tk), tk,
                             tokenInfoKnown, feed)
        upd == checkTxs(r)
        m == processEthereumNetworkUpdate(Machine, now, upd,
                                          walletLocalData.blockHeight)
    IN /\ \A t \in Tokens : TxListOf(Machine, t) = <<>>
       /\ tk = PRIMARY_CURRENCY => tokenInfoKnown
       /\ Apply(m)
       /\ lastCall' = [op |-> "checkTxsEthscan", seq |-> 0, tk |-> tk,
                       feed |-> feed, requested |-> r.requested,
                       thrown |-> r.kind = "thrown", upd |-> upd]
       /\ nonceRun' = NewRun(m.wld)
       /\ UNCHANGED <<now, loop, race>>

---------------------------------------------------------------------------
(* A block height check from the sources' answers to the merge *)

\* The digits of String(n) for a non-negative integer
RECURSIVE NumberToString(_)
NumberToString(n) ==
  IF n < 10 THEN <<n>> ELSE Append(NumberToString(n \div 10), n % 10)

\* parseInt(n, 10) of a JSON number: the number is converted to a string
\* and the string is read in base 10
parseInt10(n) ==
  IF n < 0 THEN 0 - DecVal(NumberToString(0 - n))
  ELSE DecVal(NumberToString(n))

RECURSIVE HexVal(_)
HexVal(digits) ==
  IF Len(digits) = 0 THEN 0
  ELSE 16 * HexVal(SubSeq(digits, 1, Len(digits) - 1)) + digits[Len(digits)]

\* Faulty variant: the hexadecimal string is read in base 10
parseInt16AsDecimal(str) == DecVal(str.digits)

\* parseInt(str, 16) of a string "0x..." or "-0x...": the sign is kept, the
\* prefix is skipped and the digits are read in base 16
parseInt16(str) ==
  IF str.prefix = "-0x" THEN 0 - HexVal(str.digits) ELSE HexVal(str.digits)

\* jsonObj.result of eth_blockNumber, any string: "0x64", "0x65", "0x10",
\* "-0x1"
HexResults ==
  {[prefix |-> "0x", digits |-> d] : d \in {<<6, 4>>, <<6, 5>>, <<1, 0>>}}
  \cup {[prefix |-> "-0x", digits |-> <<1>>]}

\* jsonObj.data.blocks of blockchair's /ethereum/stats, any number
BlockCounts == {-1, 10, 16, 100, 101}

EthscanHeightAnswers ==
  {[valid |-> FALSE, result |-> [prefix |-> "0x", digits |-> <<>>]]} \cup
  {[valid |-> TRUE, result |-> str] : str \in HexResults}

BlockchairHeightAnswers ==
  {[valid |-> FALSE, blocks |-> 0]} \cup
  {[valid |-> TRUE, blocks |-> n] : n \in BlockCounts}

\* checkBlockHeightEthscan on an answer: the height or a throw
checkBlockHeightEthscan(answer) ==
  IF answer.valid
  THEN [ok |-> TRUE, result |-> parseInt16(answer.result)]
  ELSE [ok |-> FALSE, result |-> 0]

\* checkBlockHeightBlockchair on an answer: the height or a throw
checkBlockHeightBlockchair(answer) ==
  IF answer.valid
  THEN [ok |-> TRUE, result |-> parseInt10(answer.blocks)]
  ELSE [ok |-> FALSE, result |-> 0]

\* checkBlockHeight() is called by checkAndUpdate; answers is what the two
\* sources answer when they are asked
CallHeightCheck ==
  /\ RaceFree
  /\ \E a1 \in EthscanHeightAnswers, a2 \in BlockchairHeightAnswers :
       race' = NewRace("asyncWaterfall", "checkBlockHeight", "",
                       <<checkBlockHeightEthscan(a1),
                         checkBlockHeightBlockchair(a2)>>)
               @@ [answers |-> <<a1, a2>>]
  /\ lastCall' = [op |-> "checkBlockHeight", seq |-> NextSeq]
  /\ RaceFrame

\* checkAndUpdate resumes with the fact of checkBlockHeight and merges it
HeightCheckMerge ==
  /\ race.caller = "checkBlockHeight"
  /\ race.status \in {"resolved", "rejected"}
  /\ race.returned.kind = "none"
  /\ LET r == checkBlockHeight(race)
         m == processEthereumNetworkUpdate(Machine, now, r.fact,
                                           walletLocalData.blockHeight)
     IN /\ Apply(m)
        /\ race' = [race EXCEPT !.returned = r]
        /\ lastCall' = [op |-> "heightMerged", seq |-> NextSeq,
                        upd |-> r.fact]
        /\ nonceRun' = NewRun(m.wld)
  /\ UNCHANGED <<now, loop>>

---------------------------------------------------------------------------
(* needsLoop() called once per start of the engine *)

KeyOf(l) ==
  IF l.pc \in {"bal", "txs"} THEN <<l.pc, enabledTokens[l.i]>> ELSE <<l.pc>>

FreeInstances == {k \in 1 .. MaxLoops : loop.instances[k].pc = "none"}

\* needsLoop() is called and not awaited: a further call runs beside the
\* ones that have not returned
LaunchNeedsLoop(l) ==
  LET k == CHOOSE j \in FreeInstances : \A j2 \in FreeInstances : j <= j2
  IN [l EXCEPT !.instances[k] = [NoInstance EXCEPT !.pc = "while"]]

\* No other needsLoop() call is between its while test and its first
\* checkFunc call
OthersSuspended(k) ==
  \A j \in (1 .. MaxLoops) \ {k} : ~InSyncStretch(loop.instances[j])

InstanceFrame ==
  /\ trace' = <<>>
  /\ UNCHANGED <<walletLocalData, ethNeeds, engine, nonceRun, now, race>>

\* start(): startEngine() sets engineOn and the loop is launched
StartEngineAndLoop ==
  /\ ~engine.engineOn
  /\ LoopSuspended
  /\ FreeInstances # {}
  /\ engine' = [engine EXCEPT !.engineOn = TRUE]
  /\ loop' = LaunchNeedsLoop(loop)
  /\ trace' = <<>>
  /\ lastCall' = [op |-> "startEngine", seq |-> 0]
  /\ UNCHANGED <<walletLocalData, ethNeeds, nonceRun, now, race>>

\* resyncBlockchain(): killEngine, clearBlockchainCache, startEngine
ResyncBlockchain ==
  /\ LoopSuspended
  /\ FreeInstances # {}
  /\ LET killed == [Machine EXCEPT !.eng.engineOn = FALSE]
         cleared == clearBlockchainCache(killed)
         m == [cleared EXCEPT !.eng.engineOn = TRUE]
     IN /\ Apply(m)
        /\ nonceRun' = NewRun(m.wld)
  /\ loop' = LaunchNeedsLoop(loop)
  /\ lastCall' = [op |-> "resyncBlockchain", seq |-> 0]
  /\ UNCHANGED <<now, race>>

\* while (engineOn) of call k: a pass starts
InstanceEnter(k) ==
  /\ loop.instances[k].pc = "while"
  /\ OthersSuspended(k)
  /\ engine.engineOn
  /\ loop' = [loop EXCEPT
                !.instances[k].pc = "height",
                !.instances[k].preUpdateBlockHeight =
                    walletLocalData.blockHeight]
  /\ lastCall' = [op |-> "pass", seq |-> 0, k |-> k]
  /\ InstanceFrame

\* while (engineOn) of call k is false: the call returns
InstanceExit(k) ==
  /\ loop.instances[k].pc = "while"
  /\ OthersSuspended(k)
  /\ ~engine.engineOn
  /\ loop' = [loop EXCEPT !.instances[k] = NoInstance]
  /\ lastCall' = [op |-> "return", seq |-> 0, k |-> k]
  /\ InstanceFrame

\* checkAndUpdate of call k finds its check due and calls checkFunc
InstanceCheckDue(k) ==
  LET l == loop.instances[k]
  IN /\ l.pc \in {"height", "nonce", "bal", "txs"}
     /\ ~l.fetching
     /\ OthersSuspended(k)
     /\ IsDue(now, LastChecked(ethNeeds, KeyOf(l)), PollMillisec(KeyOf(l)))
     /\ loop' = [loop EXCEPT !.instances[k].fetching = TRUE,
                             !.instances[k].checkNow = now]
     /\ lastCall' = [op |-> "checkFunc", seq |-> 0, k |-> k]
     /\ InstanceFrame

\* Why a fetch fails: no answer from any server, an answer that fails its
\* schema, no token info for the currency code
FailureKinds == {"transport", "malformed", "unknownToken"}

CandidateFails == [ok |-> FALSE, result |-> 0]

\* asyncWaterfall run to its end
RECURSIVE asyncWaterfallRun(_)
asyncWaterfallRun(r) ==
  IF r.status # "pending" THEN r
  ELSE asyncWaterfallRun(asyncWaterfallSettled(asyncWaterfallInvoke(r),
                                               r.next))

\* Faulty variant: the error of multicastServers leaves checkNonce
checkNonceRethrows(answer) ==
  IF answer.threw THEN [kind |-> "thrown", fact |-> EmptyFact]
  ELSE IF answer.valid
       THEN [kind |-> "fact",
             fact |-> [nonce |-> answer.nonce, server |-> Server]]
       ELSE [kind |-> "fact", fact |-> EmptyFact]

\* checkNonce: the nonce of a valid answer; {} after an invalid answer and
\* from the catch
checkNonce(answer) ==
  IF ~answer.threw /\ answer.valid
  THEN [kind |-> "fact", fact |-> [nonce |-> answer.nonce, server |-> Server]]
  ELSE [kind |-> "fact", fact |-> EmptyFact]

\* What checkFunc of a key resolves to, or throws, when its providers fail
\* for the reason f
FetchOnFailure(key, f) ==
  CASE key[1] = "height" ->
         checkBlockHeight(asyncWaterfallRun(
           NewRace("asyncWaterfall", "checkBlockHeight", "",
                   <<CandidateFails, CandidateFails>>)))
    [] key[1] = "nonce" ->
         checkNonce([threw |-> f = "transport", valid |-> FALSE, nonce |-> 0])
    [] key[1] = "bal" ->
         checkTokenBal(asyncWaterfallRun(
           NewRace("asyncWaterfall", "checkTokenBal", key[2],
                   <<CandidateFails, CandidateFails>>)))
    [] key[1] = "txs" ->
         [kind |-> "fact",
          fact |-> checkTxs(checkTxsEthscan(
                     0, key[2], f # "unknownToken",
                     [full |-> 0,
                      end |-> [threw |-> f = "transport", valid |-> FALSE,
                               len |-> 0],
                      after |-> EmptyPage]))]

\* The providers of the check of call k fail: checkFunc resolves and
\* checkAndUpdate merges the fact, or checkFunc throws and needsLoop is left
\* by the exception
InstanceFetchFailed(k) ==
  \E f \in FailureKinds :
    LET l == loop.instances[k]
        r == FetchOnFailure(KeyOf(l), f)
        m == IF r.kind = "thrown" THEN Machine
             ELSE processEthereumNetworkUpdate(Machine, l.checkNow, r.fact,
                                               l.preUpdateBlockHeight)
    IN /\ l.fetching
       /\ OthersSuspended(k)
       /\ Apply(m)
       /\ loop' = [loop EXCEPT
                     !.instances[k] =
                        IF r.kind = "thrown"
                        THEN [NoInstance EXCEPT !.pc = "aborted"]
                        ELSE AfterCheck([l EXCEPT !.checkNow = 0])]
       /\ lastCall' = [op |-> "processEthereumNetworkUpdate", seq |-> 0,
                       k |-> k, failure |-> f]
       /\ nonceRun' = NewRun(m.wld)
       /\ UNCHANGED <<now, race>>

\* checkAndUpdate of call k finds its check not due
InstanceCheckNotDue(k) ==
  LET l == loop.instances[k]
  IN /\ l.pc \in {"height", "nonce", "bal", "txs"}
     /\ ~l.fetching
     /\ OthersSuspended(k)
     /\ ~IsDue(now, LastChecked(ethNeeds, KeyOf(l)), PollMillisec(KeyOf(l)))
     /\ loop' = [loop EXCEPT !.instances[k] = AfterCheck(l)]
     /\ lastCall' = [op |-> "notDue", seq |-> 0, k |-> k]
     /\ InstanceFrame

\* checkFunc of call k resolves to what a provider answered and
\* checkAndUpdate merges it
\* The answers of providers that all report the same chain tip
TipAnswers(key) ==
  {upd \in FetchAnswers(key) :
     Has(upd, "blockHeight") => upd.blockHeight = MaxHeight}

InstanceFetchAnswered(k) ==
  LET l == loop.instances[k]
  IN /\ l.fetching
     /\ OthersSuspended(k)
     /\ \E upd \in TipAnswers(KeyOf(l)) :
          LET m == processEthereumNetworkUpdate(Machine, l.checkNow, upd,
                                                l.preUpdateBlockHeight)
          IN /\ Apply(m)
             /\ nonceRun' = NewRun(m.wld)
     /\ loop' = [loop EXCEPT
                   !.instances[k] = AfterCheck([l EXCEPT !.checkNow = 0])]
     /\ lastCall' = [op |-> "processEthereumNetworkUpdate", seq |-> 0,
                     k |-> k]
     /\ UNCHANGED <<now, race>>

\* snooze(1000) of call k is over, a poll interval later; the reading of the
\* clock stays within StartTime + MaxElapsed
InstanceSnooze(k) ==
  /\ loop.instances[k].pc = "snooze"
  /\ OthersSuspended(k)
  /\ now' = IF now + BLOCKHEIGHT_POLL_MILLISECONDS <= StartTime + MaxElapsed
            THEN now + BLOCKHEIGHT_POLL_MILLISECONDS
            ELSE now
  /\ loop' = [loop EXCEPT !.instances[k].pc = "while"]
  /\ trace' = <<>>
  /\ lastCall' = [op |-> "snooze", seq |-> 0, k |-> k]
  /\ UNCHANGED <<walletLocalData, ethNeeds, engine, nonceRun, race>>

---------------------------------------------------------------------------
(* checkNonce over multicastServers('eth_getTransactionCount') *)

\* The servers of eth_getTransactionCount: the configured etherscan server
\* and infura
nonceServers == {"etherscan", "infura"}

\* The orders shuffleArray can leave the candidates in
ShuffledOrders == {<<"etherscan", "infura">>, <<"infura", "etherscan">>}

\* What a server answers: the fetch throws, a JSON object whose result is
\* not a string, one whose result is a string but which fails the schema,
\* or a valid answer with a hexadecimal count
ServerAnswers ==
  {[kind |-> k, digits |-> <<>>] :
     k \in {"threw", "notString", "invalidString"}} \cup
  {[kind |-> "valid", digits |-> d] : d \in {<<1>>, <<2>>}}

\* typeof result.result === 'string'
ResultIsString(answer) == answer.kind \in {"invalidString", "valid"}

\* The candidate of multicastServers for a server: the etherscan candidate
\* throws unless result.result is a string, the infura candidate returns
\* whatever was answered
NonceCandidate(server, answer) ==
  IF answer.kind = "threw" THEN [ok |-> FALSE, result |-> answer]
  ELSE IF server = "etherscan" /\ ~ResultIsString(answer)
       THEN [ok |-> FALSE, result |-> answer]
       ELSE [ok |-> TRUE, result |-> answer]

\* The try block of checkNonce as checkNonce sees its outcome
NonceAnswerOf(mc) ==
  IF mc.kind = "thrown" THEN [threw |-> TRUE, valid |-> FALSE, nonce |-> 0]
  ELSE [threw |-> FALSE,
        valid |-> mc.value.result.kind = "valid",
        nonce |-> HexVal(mc.value.result.digits)]

\* A nonce check: multicastServers runs asyncWaterfall over the shuffled
\* candidates, checkNonce validates what it returns and checkAndUpdate
\* merges the fact
CheckNonceFromServers ==
  \E order \in ShuffledOrders, answers \in [nonceServers -> ServerAnswers] :
    LET outcome == [i \in 1 .. Len(order) |->
                      NonceCandidate(order[i], answers[order[i]])]
        r == asyncWaterfallRun(
               NewRace("asyncWaterfall", "eth_getTransactionCount", "",
                       outcome))
        res == checkNonce(NonceAnswerOf(multicastServers(r)))
        m == processEthereumNetworkUpdate(Machine, now, res.fact,
                                          walletLocalData.blockHeight)
    IN /\ Apply(m)
       /\ lastCall' = [op |-> "checkNonce", seq |-> 0, order |-> order,
                       answers |-> answers, invoked |-> r.invoked,
                       upd |-> res.fact]
       /\ nonceRun' = NewRun(m.wld)
       /\ UNCHANGED <<now, loop, race>>

---------------------------------------------------------------------------
(* checkBlockHeight over multicastServers('eth_blockNumber') *)

\* checkBlockHeightEthscan as the first candidate of checkBlockHeight: what
\* multicastServers threw leaves it, what multicastServers returned is
\* validated and parsed
checkBlockHeightEthscanOver(mc) ==
  IF mc.kind = "thrown" THEN CandidateFails
  ELSE checkBlockHeightEthscan(
         [valid |-> mc.value.result.kind = "valid",
          result |-> [prefix |-> "0x", digits |-> mc.value.result.digits]])

\* A height check: checkBlockHeight runs asyncWaterfall over
\* checkBlockHeightEthscan, itself asyncWaterfall over the shuffled
\* etherscan and infura candidates, and checkBlockHeightBlockchair;
\* checkAndUpdate merges the fact
CheckHeightFromServers ==
  \E order \in ShuffledOrders, answers \in [nonceServers -> ServerAnswers],
     blockchair \in BlockchairHeightAnswers :
    LET outcome == [i \in 1 .. Len(order) |->
                      NonceCandidate(order[i], answers[order[i]])]
        inner == asyncWaterfallRun(
                   NewRace("asyncWaterfall", "eth_blockNumber", "", outcome))
        outer == asyncWaterfallRun(
                   NewRace("asyncWaterfall", "checkBlockHeight", "",
                           <<checkBlockHeightEthscanOver(
                               multicastServers(inner)),
                             checkBlockHeightBlockchair(blockchair)>>))
        res == checkBlockHeight(outer)
        m == processEthereumNetworkUpdate(Machine, now, res.fact,
                                          walletLocalData.blockHeight)
    IN /\ Apply(m)
       /\ lastCall' = [op |-> "checkBlockHeightServers", seq |-> 0,
                       order |-> order, answers |-> answers,
                       invoked |-> inner.invoked,
                       funcsInvoked |-> outer.invoked, upd |-> res.fact]
       /\ nonceRun' = NewRun(m.wld)
       /\ UNCHANGED <<now, loop, race>>

---------------------------------------------------------------------------
(* The start block of a history check *)

\* The heights a height check can hand over: parseInt of what a source
\* answered
QueryHeights == -1 .. MaxQueryHeight

\* The height check of a pass merges the height h
MergeQueryHeight ==
  \E h \in QueryHeights :
    LET upd == [blockHeight |-> h, server |-> Server]
        m == processEthereumNetworkUpdate(Machine, now, upd,
                                          walletLocalData.blockHeight)
    IN /\ Apply(m)
       /\ lastCall' = [op |-> "processEthereumNetworkUpdate", seq |-> 0,
                       upd |-> upd]
       /\ nonceRun' = NewRun(m.wld)
       /\ UNCHANGED <<now, loop, race>>

\* The history check of a pass that sampled the stored height: checkFunc
\* reads lastTransactionQueryHeight[tk], checkTxs is called with the start
\* block and finds no record, and the fact is merged
CheckTxsFromQueryHeight ==
  \E tk \in Tokens :
    LET startBlock == StartBlockOf(walletLocalData, tk)
        upd == [tokenTxs |->
                  (tk :> [blockHeight |-> startBlock,
                          edgeTransactions |-> <<>>]),
                server |-> Server]
        m == processEthereumNetworkUpdate(Machine, now, upd,
                                          walletLocalData.blockHeight)
    IN /\ Apply(m)
       /\ lastCall' = [op |-> "checkTxs", seq |-> 0, tk |-> tk,
                       startBlock |-> startBlock,
                       queried |->
                         Has(walletLocalData.lastTransactionQueryHeight, tk),
                       queryHeight |->
                         IF Has(walletLocalData.lastTransactionQueryHeight,
                                tk)
                         THEN walletLocalData.lastTransactionQueryHeight[tk]
                         ELSE 0]
       /\ nonceRun' = NewRun(m.wld)
       /\ UNCHANGED <<now, loop, race>>

---------------------------------------------------------------------------
(* EthereumEngine.makeSpend *)

\* bns.mul(gasPrice, gasLimit)
NativeNetworkFee(in) == in.gasPrice * in.gasLimit

\* Faulty variant: the fee is left out of the total
TotalTxAmountWithoutFee(nativeNetworkFee, nativeAmount) == nativeAmount

\* bns.add(nativeNetworkFee, nativeAmount)
TotalTxAmount(nativeNetworkFee, nativeAmount) ==
  nativeNetworkFee + nativeAmount

\* bns.gt(amount, balance) on a stored balance string
bnsGt(amount, balance) == amount > DecVal(balance)

SpendError(name, message) ==
  [kind |-> "thrown", error |-> name, message |-> message]

InsufficientFundsError(message) == SpendError("InsufficientFundsError", message)

\* makeSpend on what super.makeSpend returned for the spend info (targets,
\* currency code, otherParams), on the answer of getTokenInfo and on the
\* gas price and limit calcMiningFee returned
makeSpend(m, in) ==
  LET balances == m.wld.totalBalances
      fee == NativeNetworkFee(in)
      result ==
        IF in.spendTargets # 1
        THEN SpendError("Error", "Error: only one output allowed")
        ELSE IF ~in.addressValid
        THEN SpendError("TypeError", "Invalid Ethereum address")
        ELSE IF /\ in.currencyCode # PRIMARY_CURRENCY
                /\ ~in.data
                /\ ~in.tokenInfoKnown
        THEN SpendError("Error",
               "Error: Token not supported or invalid contract address")
        ELSE IF in.currencyCode = PRIMARY_CURRENCY
        THEN LET totalTxAmount == TotalTxAmount(fee, in.nativeAmount)
             IN IF /\ bnsGt(totalTxAmount, balances[PRIMARY_CURRENCY])
                   /\ ~in.byPassBalanceCheck
                THEN InsufficientFundsError("")
                ELSE [kind |-> "edgeTransaction",
                      currencyCode |-> in.currencyCode,
                      nativeAmount |-> 0 - totalTxAmount,
                      networkFee |-> fee, parentNetworkFee |-> 0]
        ELSE IF /\ bnsGt(fee, balances[PRIMARY_CURRENCY])
                /\ ~in.byPassBalanceCheck
        THEN InsufficientFundsError("Insufficient ETH for transaction fee")
        ELSE IF /\ bnsGt(in.nativeAmount, balances[in.currencyCode])
                /\ ~in.byPassBalanceCheck
        THEN InsufficientFundsError("")
        ELSE [kind |-> "edgeTransaction",
              currencyCode |-> in.currencyCode,
              nativeAmount |-> 0 - in.nativeAmount,
              networkFee |-> 0, parentNetworkFee |-> fee]
  IN [m |-> m, result |-> result]

\* Spend infos with one target and a valid address
SpendInfos ==
  [spendTargets : {1}, addressValid : {TRUE}, currencyCode : Tokens,
   tokenInfoKnown : BOOLEAN, data : BOOLEAN, byPassBalanceCheck : BOOLEAN,
   gasPrice : {1, 2}, gasLimit : {1}, nativeAmount : {1, 9, 10}]

\* Spend infos without target, with two targets, with an invalid address
BadSpendInfos ==
  [spendTargets : {0, 1, 2}, addressValid : BOOLEAN,
   currencyCode : {PRIMARY_CURRENCY}, tokenInfoKnown : {TRUE},
   data : {FALSE}, byPassBalanceCheck : BOOLEAN, gasPrice : {1},
   gasLimit : {1}, nativeAmount : {1}]

\* makeSpend(edgeSpendInfo) is called on a wallet that has a balance of the
\* native asset and of the asset spent
MakeSpend ==
  \E in \in SpendInfos \cup BadSpendInfos :
    LET r == makeSpend(Machine, in)
    IN /\ Has(walletLocalData.totalBalances, PRIMARY_CURRENCY)
       /\ Has(walletLocalData.totalBalances, in.currencyCode)
       /\ Apply(r.m)
       /\ lastCall' = [op |-> "makeSpend", seq |-> 0, input |-> in,
                       result |-> r.result]
       /\ nonceRun' = NewRun(r.m.wld)
       /\ UNCHANGED <<now, loop, race>>

\* Balance facts for one asset: 1 or 10
SpendBalFacts ==
  {[tokenBal |-> (tk :> b), server |-> Server] :
     tk \in Tokens, b \in {<<1>>, <<1, 0>>}}

MergeSpendBalFact == MergeFact(SpendBalFacts)

---------------------------------------------------------------------------
(* EthereumNetwork.processEtherscanTransaction, processAlethioTransaction *)

\* walletLocalData.publicKey, as the wallet holds it
publicKey == "0xW"

\* Addresses a provider reports: the wallet's in two spellings, another one
Addresses == {"0xW", "0xw", "0xa"}

toLowerCase(address) == IF address = "0xW" THEN "0xw" ELSE address

\* bns.sub(bns.sub('0', value), nativeNetworkFee)
SpendAmount(value, nativeNetworkFee) == (0 - value) - nativeNetworkFee

\* parseInt(tx.blockNumber) or globalRank[0]; a negative height becomes 0
RecordHeight(blockHeight) == IF blockHeight < 0 THEN 0 ELSE blockHeight

processEtherscanTransaction(tx, currencyCode) ==
  LET nativeNetworkFee ==
        IF tx.contractAddress # "" THEN 0 ELSE tx.gasPrice * tx.gasUsed
      spend == toLowerCase(tx.from) = toLowerCase(publicKey)
      netNativeAmount ==
        IF spend
        THEN IF toLowerCase(tx.from) = toLowerCase(tx.to)
             THEN nativeNetworkFee * (0 - 1)
             ELSE SpendAmount(tx.value, nativeNetworkFee)
        ELSE 0 + tx.value
  IN [txid |-> tx.hash,
      currencyCode |-> currencyCode,
      blockHeight |-> RecordHeight(tx.blockNumber),
      nativeAmount |-> netNativeAmount,
      networkFee |-> nativeNetworkFee,
      ourReceiveAddresses |->
        IF spend THEN <<>> ELSE <<toLowerCase(publicKey)>>,
      otherParams |-> [from |-> <<tx.from>>, to |-> <<tx.to>>]]

\* The record, or null for a transfer that does not involve the wallet
processAlethioTransaction(tokenTransfer, tx, currencyCode) ==
  LET native == currencyCode = PRIMARY_CURRENCY
      nativeNetworkFee == IF native THEN tx.fee ELSE 0
      fromAddress == tokenTransfer.from
      toAddress == tokenTransfer.to
      spend == toLowerCase(fromAddress) = toLowerCase(publicKey)
      receive == toLowerCase(toAddress) = toLowerCase(publicKey)
      netNativeAmount ==
        IF spend
        THEN IF toLowerCase(fromAddress) = toLowerCase(toAddress)
             THEN nativeNetworkFee * (0 - 1)
             ELSE SpendAmount(tx.value, nativeNetworkFee)
        ELSE tx.value
  IN IF ~spend /\ ~receive THEN [null |-> TRUE]
     ELSE [txid |-> tx.txHash,
           currencyCode |-> currencyCode,
           blockHeight |-> RecordHeight(tokenTransfer.globalRank),
           nativeAmount |-> netNativeAmount,
           networkFee |-> nativeNetworkFee,
           ourReceiveAddresses |->
             IF spend THEN <<>> ELSE <<toLowerCase(publicKey)>>,
           parentNetworkFee |-> IF native THEN "" ELSE tx.fee,
           otherParams |->
             [from |-> <<fromAddress>>, to |-> <<toAddress>>,
              tokenRecipientAddress |->
                IF native THEN "null" ELSE toAddress]]

\* Records of the explorer: contractAddress is empty for a plain transfer
EtherscanTransactions ==
  [hash : {"t1"}, from : Addresses, to : Addresses, value : {0, 5},
   gasPrice : {1, 2}, gasUsed : {3}, contractAddress : {"", "0xc"},
   blockNumber : {-1, 1}]

\* Transfers of the cursor-paged feed, each with the transaction it links to
AlethioTransfers ==
  [from : Addresses, to : Addresses, globalRank : {-1, 1}]

AlethioTransactions ==
  [txHash : {"t1"}, value : {0, 5}, fee : {6}, txGasPrice : {2},
   txGasUsed : {3}]

\* processEtherscanTransaction(tx, currencyCode) is called on a record
ProcessEtherscanRecord ==
  /\ \E tx \in EtherscanTransactions, currencyCode \in Tokens :
       lastCall' = [op |-> "processEtherscanTransaction", seq |-> 0,
                    from |-> tx.from, to |-> tx.to, value |-> tx.value,
                    cost |-> tx.gasPrice * tx.gasUsed, tx |-> tx,
                    currencyCode |-> currencyCode,
                    result |-> processEtherscanTransaction(tx, currencyCode)]
  /\ trace' = <<>>
  /\ UNCHANGED <<walletLocalData, ethNeeds, engine, nonceRun, now, loop,
                 race>>

\* processAlethioTransaction(tokenTransfer, tx, currencyCode) is called
ProcessAlethioRecord ==
  /\ \E tokenTransfer \in AlethioTransfers, tx \in AlethioTransactions,
        currencyCode \in Tokens :
       lastCall' = [op |-> "processAlethioTransaction", seq |-> 0,
                    from |-> tokenTransfer.from, to |-> tokenTransfer.to,
                    value |-> tx.value,
                    cost |-> tx.txGasPrice * tx.txGasUsed, tx |-> tx,
                    currencyCode |-> currencyCode,
                    result |-> processAlethioTransaction(tokenTransfer, tx,
                                                         currencyCode)]
  /\ trace' = <<>>
  /\ UNCHANGED <<walletLocalData, ethNeeds, engine, nonceRun, now, loop,
                 race>>

---------------------------------------------------------------------------
(* EthereumNetwork.checkTxsAlethio *)

\* A transfer of a page: the height in globalRank, what getTokenCurrencyCode
\* returns for its contract, whether the linked transaction passes its
\* schema, and its two addresses
AlethioItem(rank, code, txValid, from, to) ==
  [rank |-> rank, code |-> code, txValid |-> txValid, from |-> from,
   to |-> to]

\* Transfers above startBlock that come in, that do not involve the wallet,
\* of a contract that is no enabled token, with an invalid transaction, and
\* a transfer at startBlock
AlethioItems ==
  {AlethioItem(1, c, TRUE, "0xa", "0xw") : c \in Tokens} \cup
  {AlethioItem(1, c, TRUE, "0xa", "0xa") : c \in Tokens} \cup
  {AlethioItem(1, "undefined", TRUE, "0xa", "0xw"),
   AlethioItem(1, PRIMARY_CURRENCY, FALSE, "0xa", "0xw"),
   AlethioItem(0, PRIMARY_CURRENCY, TRUE, "0xa", "0xw")}

\* A page of the feed: its verdict, its transfers, meta.page.hasNext; the
\* page has a next link when hasNext is true
AlethioPages(n) ==
  {[valid |-> FALSE, data |-> <<>>, hasNext |-> FALSE]} \cup
  [valid : {TRUE}, data : UNION {[1 .. k -> AlethioItems] : k \in 0 .. n},
   hasNext : BOOLEAN]

\* The first page and the page its next link leads to
AlethioFeeds == [1 .. 2 -> AlethioPages(1)] \cup
                {<<p>> : p \in AlethioPages(2)}

\* What is answered for a link of the last page of the feed
AlethioPageAt(feed, idx) ==
  IF idx <= Len(feed) THEN feed[idx]
  ELSE [valid |-> TRUE, data |-> <<>>, hasNext |-> FALSE]

\* The for loop over the transfers of a page from transfer j on: the
\* records pushed, whether a transfer at or below startBlock ended the loop,
\* whether an invalid transaction made it throw
RECURSIVE AlethioTransfersFrom(_, _, _, _, _)
AlethioTransfersFrom(data, idx, j, startBlock, pushed) ==
  IF j > Len(data)
  THEN [threw |-> FALSE, old |-> FALSE, pushed |-> pushed]
  ELSE LET item == data[j]
       IN IF ~(item.rank > startBlock)
          THEN [threw |-> FALSE, old |-> TRUE, pushed |-> pushed]
          ELSE IF item.code = "undefined"
          THEN AlethioTransfersFrom(data, idx, j + 1, startBlock, pushed)
          ELSE IF ~item.txValid
          THEN [threw |-> TRUE, old |-> FALSE, pushed |-> pushed]
          ELSE LET tx == processAlethioTransaction(
                           [from |-> item.from, to |-> item.to,
                            globalRank |-> item.rank],
                           [txHash |-> 2 * idx + j, value |-> 5, fee |-> 6],
                           item.code)
               IN AlethioTransfersFrom(
                    data, idx, j + 1, startBlock,
                    IF "null" \in DOMAIN tx THEN pushed
                    ELSE Append(pushed, tx))

\* Faulty variant: a transfer at or below startBlock does not end the fetch
AlethioHasNextIgnoringOld(answer, scan) == answer.hasNext

\* hasNext after the for loop: cleared by a transfer at or below startBlock
AlethioHasNext(answer, scan) == answer.hasNext /\ ~scan.old

\* The while (1) loop from the page idx on
RECURSIVE AlethioLoop(_, _, _, _, _)
AlethioLoop(feed, idx, startBlock, requested, allTransactions) ==
  LET answer == AlethioPageAt(feed, idx)
      asked == Append(requested, idx)
  IN IF ~answer.valid
     THEN [kind |-> "thrown", requested |-> asked, edgeTransactions |-> <<>>]
     ELSE LET scan == AlethioTransfersFrom(answer.data, idx, 1, startBlock,
                                           allTransactions)
          IN IF scan.threw
             THEN [kind |-> "thrown", requested |-> asked,
                   edgeTransactions |-> <<>>]
             ELSE IF ~AlethioHasNext(answer, scan)
             THEN [kind |-> "fact", requested |-> asked,
                   edgeTransactions |-> scan.pushed]
             ELSE AlethioLoop(feed, idx + 1, startBlock, asked, scan.pushed)

\* Faulty variant: response.tokenTxs starts with the ETH entry alone whatever
\* asset is asked about
AlethioResponseKeysNativeOnly(currencyCode) == {PRIMARY_CURRENCY}

\* response.tokenTxs before the records are filed: ETH alone for the native
\* asset, every enabled token but ETH for a token
AlethioResponseKeys(currencyCode) ==
  IF currencyCode # PRIMARY_CURRENCY THEN Tokens \ {PRIMARY_CURRENCY}
  ELSE {PRIMARY_CURRENCY}

\* checkTxsAlethio(startBlock, currencyCode) against a feed; a record of an
\* asset that is no key of response.tokenTxs makes the push throw
checkTxsAlethio(startBlock, currencyCode, feed) ==
  LET r == AlethioLoop(feed, 1, startBlock, <<>>, <<>>)
      keys == AlethioResponseKeys(currencyCode)
      all == r.edgeTransactions
  IN IF r.kind = "thrown"
        \/ \E i \in DOMAIN all : all[i].currencyCode \notin keys
     THEN [kind |-> "thrown", requested |-> r.requested, fact |-> EmptyFact]
     ELSE [kind |-> "fact", requested |-> r.requested,
           fact |->
             [tokenTxs |->
                [tk \in keys |->
                   [blockHeight |-> startBlock,
                    edgeTransactions |->
                      SelectSeq(all, LAMBDA tx : tx.currencyCode = tk)]],
              server |-> "alethio"]]

\* The first history check after a (re)sync, answered by Alethio; when
\* checkTxsAlethio throws the explorer fails as well and checkTxs returns {}
CheckTxsByAlethio ==
  \E tk \in Tokens, feed \in AlethioFeeds :
    LET startBlock == StartBlockOf(walletLocalData, tk)
        r == checkTxsAlethio(startBlock, tk, feed)
        upd == checkTxs(r)
        m == processEthereumNetworkUpdate(Machine, now, upd,
                                          walletLocalData.blockHeight)
    IN /\ \A t \in Tokens : TxListOf(Machine, t) = <<>>
       /\ lastCall.op # "checkTxsAlethio"
       /\ Apply(m)
       /\ lastCall' = [op |-> "checkTxsAlethio", seq |-> 0, tk |-> tk,
                       feed |-> feed, startBlock |-> startBlock,
                       requested |-> r.requested,
                       thrown |-> r.kind = "thrown", upd |-> upd]
       /\ nonceRun' = NewRun(m.wld)
       /\ UNCHANGED <<now, loop, race>>

\* Records of one page of the explorer: the wallet receives, the wallet
\* sends, the wallet is neither sender nor recipient
EthscanPageTransfers ==
  {[from |-> "0xa", to |-> "0xw"], [from |-> "0xW", to |-> "0xa"],
   [from |-> "0xa", to |-> "0xa"]}

\* The first history check after a (re)sync, answered by the explorer with
\* one page of fewer than NUM_TRANSACTIONS_TO_QUERY records: every record
\* goes through processEtherscanTransaction into the batch
CheckTxsEthscanShortPage ==
  \E tk \in Tokens, n \in 1 .. 2 :
    \E page \in [1 .. n -> EthscanPageTransfers] :
      LET startBlock == StartBlockOf(walletLocalData, tk)
          all == [i \in 1 .. n |->
                    processEtherscanTransaction(
                      [hash |-> i, from |-> page[i].from, to |-> page[i].to,
                       value |-> 5, gasPrice |-> 2, gasUsed |-> 3,
                       contractAddress |->
                         IF tk = PRIMARY_CURRENCY THEN "" ELSE "0xc",
                       blockNumber |-> 1],
                      tk)]
          upd == [tokenTxs |->
                    (tk :> [blockHeight |-> startBlock,
                            edgeTransactions |-> all]),
                  server |-> Server]
          m == processEthereumNetworkUpdate(Machine, now, upd,
                                            walletLocalData.blockHeight)
      IN /\ \A t \in Tokens : TxListOf(Machine, t) = <<>>
         /\ lastCall.op # "checkTxsEthscanPage"
         /\ PageIsLast(n)
         /\ Apply(m)
         /\ lastCall' = [op |-> "checkTxsEthscanPage", seq |-> 0, tk |-> tk,
                         page |-> page, thrown |-> FALSE, upd |-> upd]
         /\ nonceRun' = NewRun(m.wld)
         /\ UNCHANGED <<now, loop, race>>

---------------------------------------------------------------------------
(* Specifications *)

NextNonce ==
  \/ SignTx
  \/ MergeNonceFact
  \/ ClearBlockchainCache
  \/ AddPendingSpend
  \/ RemovePendingSpend

\* The nonce allocator: spends, nonce merges and cache clears
SpecNonce == Init /\ [][NextNonce]_vars

NextBal == MergeBalFact \/ MergeEmptyFact

\* Merges of balance facts
SpecBal == Init /\ [][NextBal]_vars

NextTxs == MergeTxsFact \/ MergeEmptyFact

\* Merges of transaction batches
SpecTxs == Init /\ [][NextTxs]_vars

NextPoll ==
  \/ StartEngine
  \/ KillEngine
  \/ NeedsLoop
  \/ LoopEnter
  \/ LoopExit
  \/ CheckNotDue
  \/ CheckDue
  \/ FetchAnswered
  \/ FetchFailed
  \/ Snooze

\* The polling loop of a started engine
SpecPoll == Init /\ [][NextPoll]_vars

NextRace ==
  \/ CallCheckBlockHeight
  \/ CallCheckTokenBal
  \/ CallMulticastBlockNumber
  \/ CallBroadcastTx
  \/ AsyncWaterfallInvoke
  \/ AsyncWaterfallSettle
  \/ PromiseAnySettle
  \/ RaceReturn
  \/ RaceDone

\* Calls of the request combinators
SpecRace == Init /\ [][NextRace]_vars

NextHeight ==
  \/ CallHeightCheck
  \/ AsyncWaterfallInvoke
  \/ AsyncWaterfallSettle
  \/ HeightCheckMerge
  \/ RaceDone

\* Block height checks, from the answers of the sources to the merge
SpecHeight == Init /\ [][NextHeight]_vars

InstanceStep(k) ==
  \/ InstanceEnter(k)
  \/ InstanceExit(k)
  \/ InstanceCheckDue(k)
  \/ InstanceFetchFailed(k)
  \/ InstanceSnooze(k)

NextLoops ==
  \/ StartEngineAndLoop
  \/ KillEngine
  \/ ResyncBlockchain
  \/ \E k \in 1 .. MaxLoops : InstanceStep(k)

\* The loops of an engine that is started, stopped and resynced while its
\* providers fail
SpecLoops == Init /\ [][NextLoops]_vars

\* A step of the loop of an engine that stays on
LiveStep ==
  \E k \in 1 .. MaxLoops :
    \/ InstanceEnter(k)
    \/ InstanceCheckDue(k)
    \/ InstanceCheckNotDue(k)
    \/ InstanceFetchAnswered(k)
    \/ InstanceFetchFailed(k)
    \/ InstanceSnooze(k)

NextLive ==
  \/ StartEngineAndLoop
  \/ LiveStep

\* The loop of an engine that is started and stays on while its providers
\* answer or fail; the loop goes on whenever it can: a fetch settles, a snooze ends, a
\* continuation that is ready is run
SpecLive ==
  /\ Init
  /\ [][NextLive]_vars
  /\ WF_vars(LiveStep)

NextMergeHeight ==
  \/ MergeHeightFact
  \/ MergeNonceFact
  \/ MergeEmptyFact
  \/ ClearBlockchainCache

\* Merges of the facts of the block height and nonce checks
SpecMergeHeight == Init /\ [][NextMergeHeight]_vars

NextNonceCheck ==
  \/ CheckNonceFromServers
  \/ ClearBlockchainCache

\* Nonce checks from the answers of the servers to the merge
SpecNonceCheck == Init /\ [][NextNonceCheck]_vars

NextHeightCheck ==
  \/ CheckHeightFromServers
  \/ ClearBlockchainCache

\* Height checks from the answers of the servers to the merge
SpecHeightCheck == Init /\ [][NextHeightCheck]_vars

NextConcurrent ==
  \/ StartEngineAndLoop
  \/ KillEngine
  \/ \E k \in 1 .. MaxLoops :
       \/ InstanceEnter(k)
       \/ InstanceExit(k)
       \/ InstanceCheckDue(k)
       \/ InstanceCheckNotDue(k)
       \/ InstanceFetchAnswered(k)
       \/ InstanceSnooze(k)

\* The loops of an engine that is stopped and restarted while the fetches
\* of its loops are suspended, their results merged in any order
SpecConcurrent == Init /\ [][NextConcurrent]_vars

NextLookback ==
  \/ MergeQueryHeight
  \/ CheckTxsFromQueryHeight
  \/ ClearBlockchainCache

\* History checks that start from the height recorded by the one before
SpecLookback == Init /\ [][NextLookback]_vars

NextSpend ==
  \/ MakeSpend
  \/ MergeSpendBalFact

\* makeSpend calls between merges of balance facts
SpecSpend == Init /\ [][NextSpend]_vars

NextClassify ==
  \/ ProcessEtherscanRecord
  \/ ProcessAlethioRecord

\* The classification of provider records
SpecClassify == Init /\ [][NextClassify]_vars

NextHistory ==
  \/ CheckTxsByAlethio
  \/ CheckTxsEthscanShortPage
  \/ ClearBlockchainCache

\* First history checks after a sync, answered by the cursor-paged feed or
\* by one short page of the explorer
SpecHistory == Init /\ [][NextHistory]_vars

NextFetch ==
  \/ CheckTxsByEthscan
  \/ ClearBlockchainCache

\* History fetches and their merge
SpecFetch == Init /\ [][NextFetch]_vars

---------------------------------------------------------------------------
(* Claims about the nonce allocation (checked under SpecNonce) *)

Max(a, b) == IF a >= b THEN a ELSE b

SignTxStep == lastCall'.op = "signTx"

MergeStep == lastCall'.op = "processEthereumNetworkUpdate"

AfterSignTx == lastCall.op = "signTx"

AfterMerge == lastCall.op = "processEthereumNetworkUpdate"

ScenarioStart ==
  [nextNonce |-> 5, unconfirmedNextNonce |-> 5, numUnconfirmedSpendTxs |-> 0]

\* The scenario's results, at the k-th consecutive allocation: 5, then
\* 6..10, then ExcessivePendingSpends
ScenarioResults ==
  AfterSignTx =>
    /\ nonceRun.count = 1 =>
          /\ lastCall.ok
          /\ lastCall.nonce = 5
          /\ walletLocalData.unconfirmedNextNonce = 6
    /\ nonceRun.count \in 2 .. 6 =>
          /\ lastCall.ok
          /\ lastCall.nonce = 4 + nonceRun.count
    /\ nonceRun.count = 7 => ~lastCall.ok

\* C1 as stated: from confirmedNonce = 5, nextUnconfirmedNonce = 5,
\* pendingSpendCount = 0, consecutive allocations with no nonce merge in
\* between return 5, then 6, 7, 8, 9, 10, and the next one fails.
C1_ScenarioAsStated == nonceRun.start = ScenarioStart => ScenarioResults

\* C1 amended: the same scenario gives 5, 6..10 and then
\* ExcessivePendingSpends provided the pending-spend count is above zero at
\* every allocation after the first (each signed spend was recorded as
\* pending before the next allocation).
C1_ScenarioWithPendingSpends ==
  (nonceRun.start = ScenarioStart /\ nonceRun.pendingAfterFirst)
     => ScenarioResults

C1_Witness ==
  /\ nonceRun.start = ScenarioStart
  /\ nonceRun.pendingAfterFirst
  /\ AfterSignTx
  /\ nonceRun.count = 7
  /\ ~lastCall.ok
  /\ walletLocalData.unconfirmedNextNonce = 11

\* C2: allocate() in every nonce state: with pendingSpendCount > 0 and
\* nextUnconfirmedNonce > confirmedNonce it returns nextUnconfirmedNonce and
\* increments it when the difference is at most 5, and fails with
\* ExcessivePendingSpends when the difference is above 5; otherwise it
\* returns confirmedNonce and sets nextUnconfirmedNonce = confirmedNonce + 1.
C2_AllocateCases ==
  [][SignTxStep =>
       LET b == walletLocalData
           a == walletLocalData'
           r == lastCall'
       IN /\ a.nextNonce = b.nextNonce
          /\ IF b.numUnconfirmedSpendTxs > 0
                  /\ b.unconfirmedNextNonce > b.nextNonce
             THEN IF b.unconfirmedNextNonce - b.nextNonce <= 5
                  THEN /\ r.ok
                       /\ r.nonce = b.unconfirmedNextNonce
                       /\ a.unconfirmedNextNonce = b.unconfirmedNextNonce + 1
                  ELSE /\ ~r.ok
                       /\ a.unconfirmedNextNonce = b.unconfirmedNextNonce
             ELSE /\ r.ok
                  /\ r.nonce = b.nextNonce
                  /\ a.unconfirmedNextNonce = b.nextNonce + 1]_vars

C2_Witness ==
  /\ AfterSignTx
  /\ ~lastCall.ok
  /\ walletLocalData.numUnconfirmedSpendTxs > 0
  /\ walletLocalData.unconfirmedNextNonce - walletLocalData.nextNonce = 6

---------------------------------------------------------------------------
(* Claims about the balance merge (checked under SpecBal) *)

BalanceChangedFor(tr, tk) ==
  \E i \in 1 .. Len(tr) :
    /\ "cb" \in DOMAIN tr[i]
    /\ tr[i].cb = "onBalanceChanged"
    /\ tr[i].tk = tk

\* The stored balance the comparison reads: a missing one is first set to "0"
StoredBalance(wld, tk) ==
  IF Has(wld.totalBalances, tk) THEN wld.totalBalances[tk] ELSE <<0>>

BalMergeStep == MergeStep /\ Has(lastCall'.upd, "tokenBal")

\* C7 as stated: when a balance fact for an asset is merged, the stored
\* balance is replaced and onBalanceChanged fires if and only if the new
\* decimal string differs from the stored string as a string; stored "1",
\* new "01" counts as a change.
C7_NotifyIffStringsDiffer ==
  [][BalMergeStep =>
       \A tk \in DOMAIN lastCall'.upd.tokenBal :
         Has(walletLocalData.totalBalances, tk) =>
           LET new == lastCall'.upd.tokenBal[tk]
               stored == walletLocalData.totalBalances[tk]
           IN /\ BalanceChangedFor(trace', tk) <=> (new # stored)
              /\ (new # stored) => walletLocalData'.totalBalances[tk] = new
    ]_vars

\* C7 amended: when a balance fact for an asset is merged, the stored
\* balance is replaced and onBalanceChanged fires if and only if the new
\* decimal string differs in value from the stored one (a missing stored
\* balance counts as "0"); otherwise the stored string stays; the balances
\* of assets absent from the fact are untouched.
C7_NotifyIffValuesDiffer ==
  [][BalMergeStep =>
       /\ \A tk \in DOMAIN lastCall'.upd.tokenBal :
            LET new == lastCall'.upd.tokenBal[tk]
                stored == StoredBalance(walletLocalData, tk)
                differ == DecVal(new) # DecVal(stored)
            IN /\ BalanceChangedFor(trace', tk) <=> differ
               /\ walletLocalData'.totalBalances[tk] =
                    IF differ THEN new ELSE stored
       /\ \A tk \in Tokens \ DOMAIN lastCall'.upd.tokenBal :
            /\ ~BalanceChangedFor(trace', tk)
            /\ Has(walletLocalData'.totalBalances, tk) <=>
                 Has(walletLocalData.totalBalances, tk)
            /\ Has(walletLocalData.totalBalances, tk) =>
                 walletLocalData'.totalBalances[tk] =
                   walletLocalData.totalBalances[tk]
    ]_vars

\* A merge of "01" that found a stored "1": nothing fired, "1" stayed
C7_Witness ==
  /\ AfterMerge
  /\ Has(lastCall.upd, "tokenBal")
  /\ Has(lastCall.upd.tokenBal, PRIMARY_CURRENCY)
  /\ lastCall.upd.tokenBal[PRIMARY_CURRENCY] = <<0, 1>>
  /\ walletLocalData.totalBalances[PRIMARY_CURRENCY] = <<1>>
  /\ ~BalanceChangedFor(trace, PRIMARY_CURRENCY)

---------------------------------------------------------------------------
(* Claims about the transaction merge (checked under SpecTxs) *)

TxsMergeStep == MergeStep /\ Has(lastCall'.upd, "tokenTxs")

StoredTxs(eng, tk) ==
  IF Has(eng.transactionList, tk) THEN eng.transactionList[tk] ELSE <<>>

TxIdsOf(list) == {list[i].txid : i \in 1 .. Len(list)}

NoDuplicateIds(list) ==
  \A i, j \in 1 .. Len(list) : list[i].txid = list[j].txid => i = j

\* The record a batch leaves for an id: the last one of that id in the batch
LastOfId(batch, id) ==
  LET hits == {i \in 1 .. Len(batch) : batch[i].txid = id}
  IN batch[CHOOSE i \in hits : \A j \in hits : j <= i]

\* list is oldList with batch upserted by id
UpsertedById(oldList, batch, list) ==
  /\ NoDuplicateIds(list)
  /\ TxIdsOf(list) = TxIdsOf(oldList) \cup TxIdsOf(batch)
  /\ \A i \in 1 .. Len(list) :
       IF list[i].txid \in TxIdsOf(batch)
       THEN list[i] = LastOfId(batch, list[i].txid)
       ELSE \E j \in 1 .. Len(oldList) : oldList[j] = list[i]

\* C6: merging a transaction batch upserts its records by id (insert if
\* unseen, else update in place, never a second record of one id), and
\* merging the same batch a second time leaves the transaction records
\* exactly as they were after the first merge.
C6_MergeTwiceIdempotent ==
  [][TxsMergeStep =>
       /\ \A tk \in DOMAIN lastCall'.upd.tokenTxs :
            UpsertedById(StoredTxs(engine, tk),
                         lastCall'.upd.tokenTxs[tk].edgeTransactions,
                         StoredTxs(engine', tk))
       /\ \A tk \in Tokens \ DOMAIN lastCall'.upd.tokenTxs :
            StoredTxs(engine', tk) = StoredTxs(engine, tk)
       /\ lastCall'.repeat => engine'.transactionList = engine.transactionList
    ]_vars

\* The second merge of a batch of two records, both stored
C6_Witness ==
  /\ AfterMerge
  /\ lastCall.repeat
  /\ Has(lastCall.upd, "tokenTxs")
  /\ Has(lastCall.upd.tokenTxs, PRIMARY_CURRENCY)
  /\ Len(lastCall.upd.tokenTxs[PRIMARY_CURRENCY].edgeTransactions) = 2
  /\ Len(StoredTxs(engine, PRIMARY_CURRENCY)) = 2

---------------------------------------------------------------------------
(* Claims about the polling loop (checked under SpecPoll) *)

FetchDoneStep == loop.fetching /\ ~loop'.fetching

FetchStartStep == ~loop.fetching /\ loop'.fetching

\* C5 as stated: for every resource key, when a due check's fetch completes,
\* whatever its outcome (changed value, unchanged value, failure recovered
\* to an empty fact), lastCheckedAt of the key is stamped with the check's
\* time, so that two fetches of one key are never started less than or
\* equal to the key's interval apart.
C5_StampedWhateverOutcome ==
  [][/\ FetchDoneStep =>
          LastChecked(ethNeeds', CurrentKey) = loop.checkNow
     /\ FetchStartStep =>
          \/ ~Has(loop.started, CurrentKey)
          \/ now - loop.started[CurrentKey].at > PollMillisec(CurrentKey)
    ]_vars

---------------------------------------------------------------------------
(* Claims about the request combinators (checked under SpecRace) *)

Succeeding(r) == {i \in 1 .. r.n : r.outcome[i].ok}

FirstSucceeding(r) ==
  CHOOSE i \in Succeeding(r) : \A j \in Succeeding(r) : i <= j

Returned == race.returned.kind # "none"

\* C8: asyncWaterfall over N candidates in its invocation order: if
\* candidates 1..K fail and candidate K+1 succeeds, the result is candidate
\* K+1's value, each of candidates 1..K+1 was invoked exactly once and one
\* at a time, and no candidate after K+1 is ever invoked.
C8_FallbackStopsAtFirstSuccess ==
  (race.kind = "asyncWaterfall" /\ Succeeding(race) # {}) =>
    LET k1 == FirstSucceeding(race)
    IN /\ Cardinality(race.inflight) <= 1
       /\ \A i \in 1 .. race.n : race.invoked[i] <= 1
       /\ \A i \in 1 .. race.n :
            race.invoked[i] = 1 => \A j \in 1 .. i - 1 : race.invoked[j] = 1
       /\ \A i \in k1 + 1 .. race.n : race.invoked[i] = 0
       /\ race.status # "rejected"
       /\ (race.invoked[k1] = 1 /\ race.inflight = {}) =>
            /\ race.status = "resolved"
            /\ race.value = CandidateValue(race, k1)
            /\ race.errors = [i \in 1 .. k1 - 1 |-> i]

\* Of three candidates the first failed, the second succeeded and the third
\* was not invoked
C8_Witness ==
  /\ race.kind = "asyncWaterfall"
  /\ race.n = 3
  /\ ~race.outcome[1].ok
  /\ race.outcome[2].ok
  /\ race.outcome[3].ok
  /\ race.status = "resolved"
  /\ race.invoked = <<1, 1, 0>>
  /\ race.value = CandidateValue(race, 2)

\* C9: when every candidate of an asyncWaterfall fails, the call fails with
\* one recorded error per candidate; checkBlockHeight and checkTokenBal turn
\* that failure into the empty fact instead of throwing.
C9_AllFailedBecomesEmptyFact ==
  (race.kind = "asyncWaterfall" /\ Succeeding(race) = {}) =>
    /\ race.status # "resolved"
    /\ (race.invoked[race.n] = 1 /\ race.inflight = {}) =>
         race.status = "rejected"
    /\ race.status = "rejected" => race.errors = [i \in 1 .. race.n |-> i]
    /\ (Returned /\ race.caller \in {"checkBlockHeight", "checkTokenBal"}) =>
         race.returned = [kind |-> "fact", fact |-> EmptyFact]

C9_Witness ==
  /\ race.kind = "asyncWaterfall"
  /\ race.caller = "checkBlockHeight"
  /\ Succeeding(race) = {}
  /\ race.status = "rejected"
  /\ race.errors = <<1, 2>>
  /\ race.returned = [kind |-> "fact", fact |-> EmptyFact]

LateSettleStep ==
  /\ race.kind = "promiseAny"
  /\ race.status = "resolved"
  /\ race'.kind = "promiseAny"
  /\ race'.inflight # race.inflight
  /\ race'.inflight \subseteq race.inflight

\* C10: promiseAny over 3 concurrently invoked candidates: if exactly one
\* resolves, its value is the result for every order in which the three
\* outcomes arrive; if all 3 reject, the call fails with 3 recorded errors;
\* a result that arrives after the first success is discarded and changes
\* nothing.
C10_FirstSuccessOfThree ==
  /\ [](race.kind = "promiseAny" =>
          /\ race.n = 3
          /\ \A i \in 1 .. 3 : race.invoked[i] = 1
          /\ \A i \in 1 .. 3 :
               (Succeeding(race) = {i} /\ i \notin race.inflight) =>
                 /\ race.status = "resolved"
                 /\ race.value = CandidateValue(race, i)
          /\ Succeeding(race) # {} => race.status # "rejected"
          /\ Succeeding(race) = {} =>
               /\ race.status # "resolved"
               /\ race.inflight = {} =>
                    /\ race.status = "rejected"
                    /\ Len(race.errors) = 3
                    /\ {race.errors[j] : j \in 1 .. 3} = 1 .. 3
          /\ (Returned /\ race.status = "resolved") =>
               race.returned = [kind |-> "value", value |-> race.value])
  /\ [][LateSettleStep =>
          /\ race'.status = "resolved"
          /\ race'.value = race.value
          /\ race'.returned = race.returned
          /\ UNCHANGED <<walletLocalData, ethNeeds, engine>>
       ]_vars

\* Only the second broadcast succeeded, and it arrived last
C10_Witness ==
  /\ race.kind = "promiseAny"
  /\ Succeeding(race) = {2}
  /\ race.errors = <<3, 1>>
  /\ race.inflight = {}
  /\ race.value = CandidateValue(race, 2)
  /\ race.returned.kind = "value"

---------------------------------------------------------------------------
(* Claims about the broadcast (checked under SpecRace) *)

\* The answer of endpoint i as the claim reads it
AnswerOf(i) == race.outcome[i].result

CarriesError(i) == Has(AnswerOf(i), "error")

ReportsSuccess(i) ==
  /\ ~CarriesError(i)
  /\ IF broadcastTxServers[i] = "blockcypher"
     THEN /\ Has(AnswerOf(i), "tx")
          /\ Has(AnswerOf(i).tx, "hash")
          /\ AnswerOf(i).tx.hash.type = "string"
     ELSE /\ Has(AnswerOf(i), "result")
          /\ AnswerOf(i).result.type = "string"

LastToFail == race.errors[Len(race.errors)]

\* C11: the broadcast succeeds as soon as one of the three endpoints reports
\* success (a string result, or for blockcypher an object with tx.hash); an
\* answer with an error field or a malformed answer is a failure of that
\* endpoint; when all three fail and the last one to fail reported an
\* application error, the caller gets that error as the endpoint sent it.
C11_BroadcastOutcome ==
  (race.kind = "promiseAny" /\ race.caller = "broadcastTx") =>
    /\ \A i \in 1 .. 3 :
         /\ race.outcome[i].ok <=> ReportsSuccess(i)
         /\ CarriesError(i) =>
              race.outcome[i].error =
                [kind |-> "app", message |-> AnswerOf(i).error.v]
         /\ (ReportsSuccess(i) /\ i \notin race.inflight) =>
              race.status = "resolved"
    /\ (\E i \in 1 .. 3 : ReportsSuccess(i)) => race.status # "rejected"
    /\ (Returned /\ race.status = "resolved") =>
         race.surfaced = [kind |-> "value", value |-> "edgeTransaction"]
    /\ (Returned /\ race.status = "rejected") =>
         /\ race.surfaced.kind = "thrown"
         /\ CarriesError(LastToFail) =>
              /\ race.surfaced.value = "app"
              /\ race.surfaced.message = AnswerOf(LastToFail).error.v

\* All three failed, blockcypher with a malformed answer, and etherscan was
\* the last to fail, with an error field next to a string result
C11_Witness ==
  /\ race.kind = "promiseAny"
  /\ race.caller = "broadcastTx"
  /\ race.status = "rejected"
  /\ Len(race.errors) = 3
  /\ LastToFail = 2
  /\ CarriesError(2)
  /\ Has(AnswerOf(2), "result")
  /\ ~CarriesError(3)
  /\ Has(AnswerOf(3), "tx")
  /\ race.surfaced = [kind |-> "thrown", value |-> "app",
                      message |-> "nonce too low"]

---------------------------------------------------------------------------
(* C12 *)

\* The records of pages 1 .. k of a feed, in page order
RECURSIVE RecordsOfPages(_, _)
RecordsOfPages(feed, k) ==
  IF k = 0 THEN <<>>
  ELSE RecordsOfPages(feed, k - 1) \o PageRecords(k, PageOf(feed, k).len)

FetchCompleted ==
  /\ lastCall.op = "checkTxsEthscan"
  /\ ~lastCall.thrown
  /\ lastCall.requested # <<>>

\* C12: a history fetch that completes has requested the pages 1, 2, 3, ...
\* in order, every requested page but the last held 50 records, the last
\* requested page held fewer than 50, and the batch handed to the merge is
\* exactly the records of the requested pages, for the asset fetched
C12_FixedPageFetch ==
  FetchCompleted =>
    LET k == Len(lastCall.requested)
        feed == lastCall.feed
    IN /\ \A j \in 1 .. k : lastCall.requested[j] = j
       /\ \A j \in 1 .. k - 1 :
            PageOf(feed, j).len = NUM_TRANSACTIONS_TO_QUERY
       /\ PageOf(feed, k).len < NUM_TRANSACTIONS_TO_QUERY
       /\ DOMAIN lastCall.upd.tokenTxs = {lastCall.tk}
       /\ lastCall.upd.tokenTxs[lastCall.tk].edgeTransactions =
            RecordsOfPages(feed, k)

\* Page 1 held 50 records and page 2 none: pages 1 and 2 were requested and
\* 50 records are merged
C12_Witness ==
  /\ FetchCompleted
  /\ lastCall.feed.full = 1
  /\ lastCall.feed.end = EmptyPage
  /\ lastCall.requested = <<1, 2>>
  /\ Len(lastCall.upd.tokenTxs[lastCall.tk].edgeTransactions) =
       NUM_TRANSACTIONS_TO_QUERY

---------------------------------------------------------------------------
(* C13 *)

\* The hexadecimal digits of a non-negative integer
RECURSIVE ToHexDigits(_)
ToHexDigits(n) ==
  IF n < 16 THEN <<n>> ELSE Append(ToHexDigits(n \div 16), n % 16)

IsHeightNotice(ev) == "cb" \in DOMAIN ev /\ ev.cb = "onBlockHeightChanged"

HeightNotices(tr) == SelectSeq(tr, IsHeightNotice)

\* Both sources answer, the first in hexadecimal and the second in decimal,
\* and both answers denote the same height
BothReport(r, h) ==
  /\ r.answers[1].valid
  /\ r.answers[2].valid
  /\ r.answers[2].blocks = h
  /\ r.answers[1].result.digits = ToHexDigits(h)

HeightMergeStep ==
  /\ race.caller = "checkBlockHeight"
  /\ race.returned.kind = "none"
  /\ race'.returned.kind # "none"

C13_WitnessSameHeight ==
  /\ lastCall.op = "heightMerged"
  /\ BothReport(race, 100)
  /\ walletLocalData.blockHeight = 100
  /\ trace = <<>>

---------------------------------------------------------------------------
(* C15 *)

\* killEngine() ran while the fetch of the current check was in flight, and
\* the fetch returns now
LateFetchReturnsStep ==
  /\ FetchDoneStep
  /\ lastCall.op = "killEngine"
  /\ ~engine.engineOn

\* C15: a fetch that returns after engineOn was cleared while it was in
\* flight changes no field of walletLocalData, no lastChecked timestamp and
\* fires no notification
C15_LateResultDiscarded ==
  [][LateFetchReturnsStep =>
       /\ walletLocalData' = walletLocalData
       /\ ethNeeds' = ethNeeds
       /\ trace' = <<>>]_vars

---------------------------------------------------------------------------
(* C16 *)

\* C16: no fetch is started while engineOn is false, the remaining checks of
\* a pass in progress included
C16_NoFetchOnceCleared ==
  [][FetchStartStep => engine.engineOn]_vars

---------------------------------------------------------------------------
(* C14 *)

\* Call k of needsLoop is inside a pass: past its while test and not yet at
\* its snooze
InPass(k) == loop.instances[k].pc \in {"height", "nonce", "bal", "txs"}

---------------------------------------------------------------------------
(* C17 *)

PassInProgress == \E k \in 1 .. MaxLoops : InPass(k)

AtSnooze == \E k \in 1 .. MaxLoops : loop.instances[k].pc = "snooze"

\* C17: while engineOn stays set, whatever the failures of the fetches, the
\* pass in progress reaches the snooze at its end and after the snooze the
\* next pass is started
C17_LoopNeverAborts ==
  /\ PassInProgress ~> AtSnooze
  /\ AtSnooze ~> PassInProgress

\* A nonce check whose servers gave no answer was merged as {} and the pass
\* of the call went on to the balance checks
C17_Witness ==
  /\ lastCall.op = "processEthereumNetworkUpdate"
  /\ "failure" \in DOMAIN lastCall
  /\ lastCall.failure = "transport"
  /\ loop.instances[lastCall.k].pc = "bal"
  /\ loop.instances[lastCall.k].i = 1
  /\ engine.engineOn

---------------------------------------------------------------------------
(* C20 *)

HeightFactMergeStep == MergeStep /\ Has(lastCall'.upd, "blockHeight")

\* What a merge that applies the height h leaves in the trace: the
\* dropped-transaction check, made while the old height is still stored,
\* then the notification of the new height
HeightApplied(h) ==
  /\ walletLocalData'.blockHeight = h
  /\ trace' = <<[call |-> "checkDroppedTransactionsThrottled",
                 blockHeight |-> walletLocalData.blockHeight],
                [cb |-> "onBlockHeightChanged", blockHeight |-> h]>>

NothingMerged ==
  /\ walletLocalData' = walletLocalData
  /\ ethNeeds' = ethNeeds
  /\ engine' = engine
  /\ trace' = <<>>

\* C20 as stated: merging a height fact changes and notifies nothing if the
\* height equals the stored one; if it differs, the dropped-transaction
\* check, the height update and onBlockHeightChanged happen in that order
C20_HeightMergeOrder ==
  [][HeightFactMergeStep =>
       IF lastCall'.upd.blockHeight = walletLocalData.blockHeight
       THEN NothingMerged
       ELSE HeightApplied(lastCall'.upd.blockHeight)]_vars

\* C20, amended: a height fact of 0 is ignored like an equal one; a
\* non-zero height that differs from the stored one is applied in the order
\* dropped-transaction check, height update, onBlockHeightChanged
C20_NonZeroHeightMergeOrder ==
  [][HeightFactMergeStep =>
       IF \/ lastCall'.upd.blockHeight = walletLocalData.blockHeight
          \/ lastCall'.upd.blockHeight = 0
       THEN NothingMerged
       ELSE HeightApplied(lastCall'.upd.blockHeight)]_vars

\* A height fact was merged into a wallet that stored another non-zero
\* height: the check saw the old height, the notification carries the new
\* one
C20_Witness ==
  /\ AfterMerge
  /\ Has(lastCall.upd, "blockHeight")
  /\ Len(trace) = 2
  /\ trace[1].blockHeight # 0
  /\ trace[2].blockHeight = lastCall.upd.blockHeight
  /\ trace[1].blockHeight # trace[2].blockHeight
  /\ walletLocalData.blockHeight = lastCall.upd.blockHeight

---------------------------------------------------------------------------
(* C19 *)

InvalidAnswer(answer) == answer.kind \in {"notString", "invalidString"}

\* C19, for the nonce check: a candidate whose answer fails validation
\* counts as failed, so the candidate after it is invoked, and no nonce of
\* an invalid answer is merged
C19_InvalidIsCandidateFailure ==
  lastCall.op = "checkNonce" =>
    /\ \A i \in 1 .. Len(lastCall.order) - 1 :
         (/\ lastCall.invoked[i] = 1
          /\ InvalidAnswer(lastCall.answers[lastCall.order[i]]))
           => lastCall.invoked[i + 1] = 1
    /\ Has(lastCall.upd, "nonce") =>
         \E server \in nonceServers :
           /\ lastCall.answers[server].kind = "valid"
           /\ lastCall.upd.nonce = HexVal(lastCall.answers[server].digits)

---------------------------------------------------------------------------
(* C18 *)

MakeSpendStep == lastCall'.op = "makeSpend"

SpendBlocked ==
  /\ lastCall'.result.kind = "thrown"
  /\ walletLocalData' = walletLocalData
  /\ ethNeeds' = ethNeeds
  /\ engine' = engine

BalanceOf(tk) == DecVal(walletLocalData.totalBalances[tk])

\* The spend info is one makeSpend goes on with: one target, a valid
\* address, a known token contract
Accepted(in, withData) ==
  /\ in.spendTargets = 1
  /\ in.addressValid
  /\ \/ in.currencyCode = PRIMARY_CURRENCY
     \/ in.tokenInfoKnown
     \/ (withData /\ in.data)

\* The balance check is not bypassed and the spend exceeds a balance: the
\* amount plus the fee the native balance, or for a token the fee the
\* native balance or the amount the token balance
Unfunded(in) ==
  /\ ~in.byPassBalanceCheck
  /\ IF in.currencyCode = PRIMARY_CURRENCY
     THEN in.nativeAmount + in.gasPrice * in.gasLimit
            > BalanceOf(PRIMARY_CURRENCY)
     ELSE \/ in.gasPrice * in.gasLimit > BalanceOf(PRIMARY_CURRENCY)
          \/ in.nativeAmount > BalanceOf(in.currencyCode)

SpendOutcome(withData) ==
  LET in == lastCall'.input
  IN /\ ~Accepted(in, withData) => SpendBlocked
     /\ (Accepted(in, withData) /\ Unfunded(in)) =>
          /\ SpendBlocked
          /\ lastCall'.result.error = "InsufficientFundsError"

\* C18 as stated: a spend that exceeds a balance fails with
\* InsufficientFunds and changes nothing; a spend with other than one
\* target, an invalid address or an unknown token contract fails too
C18_SpendBlocked == [][MakeSpendStep => SpendOutcome(FALSE)]_vars

\* C18, amended: the unknown token contract blocks the spend only when the
\* target carries no call data
C18_SpendBlockedUnlessData == [][MakeSpendStep => SpendOutcome(TRUE)]_vars

\* A native spend of 9 with fee 2 against a balance of 10 was refused
C18_Witness ==
  /\ lastCall.op = "makeSpend"
  /\ lastCall.input.currencyCode = PRIMARY_CURRENCY
  /\ lastCall.input.spendTargets = 1
  /\ lastCall.input.addressValid
  /\ ~lastCall.input.byPassBalanceCheck
  /\ lastCall.input.nativeAmount = 9
  /\ lastCall.input.gasPrice = 2
  /\ BalanceOf(PRIMARY_CURRENCY) = 10
  /\ lastCall.result.kind = "thrown"
  /\ lastCall.result.error = "InsufficientFundsError"

---------------------------------------------------------------------------
(* C21 *)

\* The history check of the loop returns a non-empty batch for tk and it is
\* merged
HistoryMergeStep(tk) ==
  /\ loop.pc = "txs"
  /\ loop.fetching
  /\ CurrentToken = tk
  /\ lastCall'.op = "processEthereumNetworkUpdate"
  /\ Has(lastCall'.upd, "tokenTxs")
  /\ Has(lastCall'.upd.tokenTxs, tk)
  /\ lastCall'.upd.tokenTxs[tk].edgeTransactions # <<>>

\* After the merge lastTransactionQueryHeight[tk] is the height the pass
\* sampled
QueryHeightIsSampled(tk) ==
  /\ Has(walletLocalData'.lastTransactionQueryHeight, tk)
  /\ walletLocalData'.lastTransactionQueryHeight[tk]
       = loop.preUpdateBlockHeight

\* The single loop merges nothing while its history fetch is in flight, so
\* the height before the merge is the height the wallet had when the history
\* check began
QueryHeightWithinCheckHeight(tk) ==
  walletLocalData'.lastTransactionQueryHeight[tk] <= walletLocalData.blockHeight

\* C21, amended: after a non-empty history batch is merged for an asset,
\* lastTransactionQueryHeight of the asset is the height the pass sampled
\* before its first check, whatever the height is at merge time
C21_SampledHeightRecorded ==
  [][\A tk \in Tokens : HistoryMergeStep(tk) => QueryHeightIsSampled(tk)]_vars

\* A batch was merged after the height check of the same pass raised the
\* height: the recorded height is the sampled one, below the wallet's
C21_Witness ==
  /\ lastCall.op = "processEthereumNetworkUpdate"
  /\ Has(lastCall.upd, "tokenTxs")
  /\ \E tk \in DOMAIN lastCall.upd.tokenTxs :
       /\ lastCall.upd.tokenTxs[tk].edgeTransactions # <<>>
       /\ walletLocalData.lastTransactionQueryHeight[tk]
            = lastCall.preUpdateBlockHeight
       /\ lastCall.preUpdateBlockHeight < walletLocalData.blockHeight

\* C21 as stated: after a non-empty history batch is merged for an asset,
\* lastTransactionQueryHeight of the asset is the sampled preUpdateBlockHeight
\* and does not exceed the height the wallet had when that check began
C21_QueryHeightBounded ==
  [][\A tk \in Tokens :
       HistoryMergeStep(tk) =>
         /\ QueryHeightIsSampled(tk)
         /\ QueryHeightWithinCheckHeight(tk)]_vars

---------------------------------------------------------------------------
(* C22 *)

ResourceKeys ==
  {<<"height">>, <<"nonce">>} \cup
  {<<kind, tk>> : kind \in {"bal", "txs"}, tk \in Tokens}

\* The loop is suspended on the fetch of one key while the check of another
\* key is due
OtherKeyDue(key) ==
  /\ engine.engineOn
  /\ loop.pc \in {"height", "nonce", "bal", "txs"}
  /\ loop.fetching
  /\ key # CurrentKey
  /\ IsDue(now, LastChecked(ethNeeds, key), PollMillisec(key))

\* checkAndUpdate can call the checkFunc of the key now
CanStartCheck(key) == ENABLED (CheckDue /\ CurrentKey = key)

\* C22: while the fetch of one resource key is in flight, a due check of any
\* other resource key can be started
C22_OtherDueCheckCanStart ==
  \A key \in ResourceKeys : OtherKeyDue(key) => CanStartCheck(key)

---------------------------------------------------------------------------
(* C23 *)

\* checkAndUpdate calls the checkFunc of the current key
CheckStartStep ==
  /\ loop.pc \in {"height", "nonce", "bal", "txs"}
  /\ ~loop.fetching
  /\ loop'.fetching

\* The keys whose check was started earlier in the pass: the clock stands
\* still within a pass and moves on in every snooze
StartedInPass == {key \in DOMAIN loop.started : loop.started[key].at = now}

TokenIndex(tk) == CHOOSE i \in DOMAIN enabledTokens : enabledTokens[i] = tk

\* Height, nonce, every balance, then every history
KindRank(key) ==
  CASE key[1] = "height" -> 0
    [] key[1] = "nonce" -> 1
    [] key[1] = "bal" -> 2
    [] key[1] = "txs" -> 3

\* Height, nonce, then token by token the balance and the history
TokenRank(key) ==
  CASE key[1] = "height" -> 0
    [] key[1] = "nonce" -> 1
    [] key[1] = "bal" -> 2 * TokenIndex(key[2])
    [] key[1] = "txs" -> 2 * TokenIndex(key[2]) + 1

\* C23 as stated: within a pass the checks are started in the order height,
\* nonce, the balance checks of the tokens, the history checks of the tokens
C23_BalancesBeforeHistories ==
  [][CheckStartStep =>
       \A key \in StartedInPass : KindRank(key) <= KindRank(CurrentKey)]_vars

\* C23, amended: within a pass the checks are started in the order height,
\* nonce, then for each enabled token in turn its balance check followed by
\* its history check
C23_TokenByToken ==
  [][CheckStartStep =>
       \A key \in StartedInPass : TokenRank(key) < TokenRank(CurrentKey)]_vars

\* The balance check of the second token was started after height, nonce
\* and the balance and history checks of the first token
C23_Witness ==
  /\ loop.pc = "bal"
  /\ loop.i = 2
  /\ loop.fetching
  /\ {<<"height">>, <<"nonce">>, <<"bal", enabledTokens[1]>>,
      <<"txs", enabledTokens[1]>>, <<"bal", enabledTokens[2]>>}
       \subseteq StartedInPass

---------------------------------------------------------------------------
(* C24 *)

ProcessUpdateStep == lastCall'.op = "processEthereumNetworkUpdate"

\* The positions in the callbacks of a call that hold the callback cb
CallbacksOf(tr, cb) ==
  {i \in DOMAIN tr : "cb" \in DOMAIN tr[i] /\ tr[i].cb = cb}

\* The records the step stored, new or with changed fields
ChangedRecords ==
  UNION {{r \in {TxListOf([eng |-> engine'], tk)[i] :
                   i \in DOMAIN TxListOf([eng |-> engine'], tk)} :
            \A i \in DOMAIN TxListOf([eng |-> engine], tk) :
              TxListOf([eng |-> engine], tk)[i] # r} : tk \in Tokens}

NotifiedRecords(tr) ==
  UNION {{tr[i].txs[j] : j \in DOMAIN tr[i].txs} :
           i \in CallbacksOf(tr, "onTransactionsChanged")}

\* C24: a processEthereumNetworkUpdate call raises at most one
\* onTransactionsChanged, which carries every record the call changed, and
\* transactionsChangedArray is empty when the call returns
C24_OneTransactionsChanged ==
  [][ProcessUpdateStep =>
       /\ Cardinality(CallbacksOf(trace', "onTransactionsChanged")) <= 1
       /\ ChangedRecords \subseteq NotifiedRecords(trace')
       /\ engine'.transactionsChangedArray = <<>>]_vars

\* One call changed a record of each of two assets and raised one
\* onTransactionsChanged with both
C24_Witness ==
  /\ lastCall.op = "processEthereumNetworkUpdate"
  /\ Cardinality(CallbacksOf(trace, "onTransactionsChanged")) = 1
  /\ \E i \in CallbacksOf(trace, "onTransactionsChanged") :
       Len(trace[i].txs) = 2
  /\ \A tk \in Tokens : TxListOf([eng |-> engine], tk) # <<>>
  /\ Cardinality(DOMAIN lastCall.upd.tokenTxs) = 2
  /\ engine.transactionsChangedArray = <<>>

---------------------------------------------------------------------------
(* C25 *)

\* The assets whose stored balance the step changed; a balance that was
\* missing counts as 0
ChangedAssets ==
  {tk \in DOMAIN walletLocalData'.totalBalances :
     IF Has(walletLocalData.totalBalances, tk)
     THEN walletLocalData'.totalBalances[tk]
            # walletLocalData.totalBalances[tk]
     ELSE DecVal(walletLocalData'.totalBalances[tk]) # 0}

BalanceEvents(tr) == CallbacksOf(tr, "onBalanceChanged")

\* C25 as stated: a processEthereumNetworkUpdate call that changes the
\* balance of several assets raises one balance-changed event
C25_OneBalanceEvent ==
  [][ProcessUpdateStep =>
       (Cardinality(ChangedAssets) >= 2 =>
          Cardinality(BalanceEvents(trace')) = 1)]_vars

\* C25, amended: the call raises one onBalanceChanged for each asset whose
\* balance it changed, with the asset and its new balance, and none for any
\* other asset
C25_OneEventPerChangedAsset ==
  [][ProcessUpdateStep =>
       /\ Cardinality(BalanceEvents(trace')) = Cardinality(ChangedAssets)
       /\ {trace'[i].tk : i \in BalanceEvents(trace')} = ChangedAssets
       /\ \A i \in BalanceEvents(trace') :
            trace'[i].balance = walletLocalData'.totalBalances[trace'[i].tk]
     ]_vars

\* One fact changed the balance of two assets: two events were raised
C25_Witness ==
  /\ lastCall.op = "processEthereumNetworkUpdate"
  /\ Has(lastCall.upd, "tokenBal")
  /\ Cardinality(DOMAIN lastCall.upd.tokenBal) = 2
  /\ Cardinality(BalanceEvents(trace)) = 2
  /\ {trace[i].tk : i \in BalanceEvents(trace)} = Tokens

---------------------------------------------------------------------------
(* C26 *)

\* A fact that holds balances only is merged
BalanceFactStep ==
  /\ ProcessUpdateStep
  /\ Has(lastCall'.upd, "tokenBal")
  /\ DOMAIN lastCall'.upd = {"tokenBal", "server"}

\* The stored balance and the check time of tk are what they were, missing
\* if they were missing
AbsentAssetUntouched(tk) ==
  /\ Has(walletLocalData'.totalBalances, tk)
       = Has(walletLocalData.totalBalances, tk)
  /\ Has(walletLocalData.totalBalances, tk) =>
       walletLocalData'.totalBalances[tk] = walletLocalData.totalBalances[tk]
  /\ Has(ethNeeds'.tokenBalLastChecked, tk)
       = Has(ethNeeds.tokenBalLastChecked, tk)
  /\ Has(ethNeeds.tokenBalLastChecked, tk) =>
       ethNeeds'.tokenBalLastChecked[tk] = ethNeeds.tokenBalLastChecked[tk]

\* C26: the merge of a balance fact leaves the balance and the check time of
\* every asset absent from the fact untouched, and the block height, the
\* nonces and the transaction records unchanged
C26_BalanceMergeFrame ==
  [][BalanceFactStep =>
       /\ \A tk \in Tokens \ DOMAIN lastCall'.upd.tokenBal :
            AbsentAssetUntouched(tk)
       /\ walletLocalData'.blockHeight = walletLocalData.blockHeight
       /\ NonceState(walletLocalData') = NonceState(walletLocalData)
       /\ walletLocalData'.lastTransactionQueryHeight
            = walletLocalData.lastTransactionQueryHeight
       /\ ethNeeds'.blockHeightLastChecked = ethNeeds.blockHeightLastChecked
       /\ ethNeeds'.nonceLastChecked = ethNeeds.nonceLastChecked
       /\ engine'.transactionList = engine.transactionList
       /\ engine'.transactionsChangedArray = engine.transactionsChangedArray
     ]_vars

\* A fact for one asset was merged and changed it while the other asset
\* was never checked: it has still no balance and no check time
C26_Witness ==
  /\ lastCall.op = "processEthereumNetworkUpdate"
  /\ Has(lastCall.upd, "tokenBal")
  /\ \E tk \in Tokens :
       /\ DOMAIN lastCall.upd.tokenBal = {tk}
       /\ Cardinality(BalanceEvents(trace)) = 1
       /\ \A other \in Tokens \ {tk} :
            /\ ~Has(walletLocalData.totalBalances, other)
            /\ ~Has(ethNeeds.tokenBalLastChecked, other)

---------------------------------------------------------------------------
(* C27 *)

\* The first source of the height check answered a string that parses to a
\* negative number
FirstSourceNegative ==
  /\ race.caller = "checkBlockHeight"
  /\ race.answers[1].valid
  /\ parseInt16(race.answers[1].result) < 0

\* C27: the stored block height is never negative, and a height check whose
\* first source answers a negative height goes on to its second source
C27_NegativeHeightRejected ==
  /\ walletLocalData.blockHeight >= 0
  /\ (FirstSourceNegative /\ race.returned.kind # "none") =>
       race.invoked[2] = 1

---------------------------------------------------------------------------
(* C29 *)

RecordProcessed ==
  lastCall.op \in {"processEtherscanTransaction", "processAlethioTransaction"}

IsWallet(address) == toLowerCase(address) = toLowerCase(publicKey)

\* The fee of the record: the gas cost for a native-asset record, 0 for a
\* token record
ClassifiedFee ==
  IF lastCall.currencyCode = PRIMARY_CURRENCY THEN lastCall.cost ELSE 0

\* The amount of the record by the place of the wallet in it
ClassifiedAmount ==
  IF IsWallet(lastCall.from)
  THEN IF IsWallet(lastCall.to) THEN 0 - ClassifiedFee
       ELSE 0 - (lastCall.value + ClassifiedFee)
  ELSE lastCall.value

\* C29: every record is classified by the wallet address: a self-send has
\* amount -fee, an outgoing record -(value + fee), a record from another
\* address +value; the fee is gasPrice * gasUsed for a native-asset record
\* and 0 for a token record, whose gas cost is recorded as the parent fee
C29_RecordClassified ==
  RecordProcessed =>
    /\ "nativeAmount" \in DOMAIN lastCall.result
    /\ lastCall.result.nativeAmount = ClassifiedAmount
    /\ lastCall.result.networkFee = ClassifiedFee
    /\ lastCall.currencyCode # PRIMARY_CURRENCY =>
         /\ "parentNetworkFee" \in DOMAIN lastCall.result
         /\ lastCall.result.parentNetworkFee = lastCall.cost

---------------------------------------------------------------------------
(* C28 *)

AlethioFetchCompleted ==
  /\ lastCall.op = "checkTxsAlethio"
  /\ ~lastCall.thrown

\* The page has no next link, or holds a transfer at or below startBlock
TerminatingPage(page, startBlock) ==
  \/ ~page.hasNext
  \/ \E j \in DOMAIN page.data : page.data[j].rank <= startBlock

MergedBatch ==
  UNION {{lastCall.upd.tokenTxs[tk].edgeTransactions[i] :
            i \in DOMAIN lastCall.upd.tokenTxs[tk].edgeTransactions} :
           tk \in DOMAIN lastCall.upd.tokenTxs}

---------------------------------------------------------------------------
(* C30 *)

Involves(from, to) == IsWallet(from) \/ IsWallet(to)

StoredRecords ==
  UNION {{TxListOf(Machine, tk)[i] : i \in DOMAIN TxListOf(Machine, tk)} :
           tk \in Tokens}

\* The answer is one valid last page of fresh transfers of the asset asked
\* for, with valid transactions
CleanAlethioPage ==
  /\ lastCall.op = "checkTxsAlethio"
  /\ Len(lastCall.feed) = 1
  /\ lastCall.feed[1].valid
  /\ ~lastCall.feed[1].hasNext
  /\ \A j \in DOMAIN lastCall.feed[1].data :
       /\ lastCall.feed[1].data[j].rank > lastCall.startBlock
       /\ lastCall.feed[1].data[j].txValid
       /\ lastCall.feed[1].data[j].code = lastCall.tk

\* C30: a fetched record in which the wallet is neither sender nor
\* recipient is never in the merged transaction set, and it neither makes
\* the fetch fail nor keeps the other records of the answer out
C30_ForeignRecordDropped ==
  /\ \A tx \in StoredRecords :
       Involves(tx.otherParams.from[1], tx.otherParams.to[1])
  /\ CleanAlethioPage =>
       /\ ~lastCall.thrown
       /\ {tx.txid : tx \in StoredRecords} =
            {2 + j : j \in {i \in DOMAIN lastCall.feed[1].data :
                              Involves(lastCall.feed[1].data[i].from,
                                       lastCall.feed[1].data[i].to)}}
  /\ lastCall.op = "checkTxsEthscanPage" =>
       {tx.txid : tx \in StoredRecords} =
         {i \in DOMAIN lastCall.page :
            Involves(lastCall.page[i].from, lastCall.page[i].to)}

\* The part of C30 that holds: the cursor-paged path drops the foreign
\* records of a clean page and keeps the others
AlethioDropsForeign ==
  /\ lastCall.op = "checkTxsAlethio" =>
       \A tx \in StoredRecords :
         Involves(tx.otherParams.from[1], tx.otherParams.to[1])
  /\ CleanAlethioPage =>
       /\ ~lastCall.thrown
       /\ {tx.txid : tx \in StoredRecords} =
            {2 + j : j \in {i \in DOMAIN lastCall.feed[1].data :
                              Involves(lastCall.feed[1].data[i].from,
                                       lastCall.feed[1].data[i].to)}}

---------------------------------------------------------------------------
(* C31 *)

\* The randomized candidates of multicastServers that were invoked and failed
PrimaryFailed(server) ==
  \E i \in 1 .. Len(lastCall.order) :
    /\ lastCall.order[i] = server
    /\ lastCall.invoked[i] = 1
    /\ lastCall.answers[server].kind # "valid"

\* A randomized candidate was invoked and answered with a valid response
PrimarySucceeded ==
  \E i \in 1 .. Len(lastCall.order) :
    /\ lastCall.invoked[i] = 1
    /\ lastCall.answers[lastCall.order[i]].kind = "valid"

\* C31, for the height check: checkBlockHeightBlockchair is invoked only
\* when every candidate of the randomized set was invoked and failed, and
\* never when one of them answered with a valid response
C31_SecondaryOnlyAfterAllPrimaries ==
  lastCall.op = "checkBlockHeightServers" =>
    /\ lastCall.funcsInvoked[2] = 1 =>
         \A server \in nonceServers : PrimaryFailed(server)
    /\ PrimarySucceeded => lastCall.funcsInvoked[2] = 0

---------------------------------------------------------------------------
(* C32 *)

\* The step is the processEthereumNetworkUpdate of needsLoop() call k
UpdateStepOf(k) ==
  /\ ProcessUpdateStep
  /\ lastCall'.k = k

\* A callback raised in the step belongs to the merge of a fact of the
\* resource key: it is of the kind of that resource and carries what the
\* same step stored
BelongsTo(ev, key) ==
  CASE ev.cb = "onBlockHeightChanged" ->
         /\ key[1] = "height"
         /\ ev.blockHeight = walletLocalData'.blockHeight
    [] ev.cb = "onBalanceChanged" ->
         /\ key[1] = "bal"
         /\ ev.balance = walletLocalData'.totalBalances[ev.tk]
    [] ev.cb = "onTransactionsChanged" ->
         /\ key[1] = "txs"
         /\ \A i \in DOMAIN ev.txs : ev.txs[i] \in ChangedRecords
    [] OTHER -> FALSE

\* The fields the merge of a fact of another kind leaves alone
ForeignFieldsKept(key) ==
  /\ key[1] # "height" => walletLocalData'.blockHeight
                            = walletLocalData.blockHeight
  /\ key[1] # "nonce" => NonceState(walletLocalData')
                           = NonceState(walletLocalData)
  /\ key[1] # "bal" => walletLocalData'.totalBalances
                         = walletLocalData.totalBalances
  /\ key[1] # "txs" => engine'.transactionList = engine.transactionList

---------------------------------------------------------------------------
(* C33 *)

\* The records the while loop of the completed fetch pushed
AlethioFetched ==
  AlethioLoop(lastCall.feed, 1, lastCall.startBlock, <<>>, <<>>)
    .edgeTransactions

\* The assets a successful fetch for the asset tk answers about
AnsweredAssets(tk) ==
  IF tk = PRIMARY_CURRENCY THEN {PRIMARY_CURRENCY}
  ELSE {t \in Tokens : t # PRIMARY_CURRENCY}

\* C33: the fact of a successful checkTxsAlethio has an entry for ETH when
\* ETH was asked about and for every enabled token but ETH otherwise, with or
\* without records; the merge stamps tokenTxsLastChecked of each of them; and
\* every record the fetch pushed is in the entry of its currency code
C33_EntryForEveryAsset ==
  AlethioFetchCompleted =>
    /\ Has(lastCall.upd, "tokenTxs")
    /\ DOMAIN lastCall.upd.tokenTxs = AnsweredAssets(lastCall.tk)
    /\ \A tk \in AnsweredAssets(lastCall.tk) :
         /\ Has(ethNeeds.tokenTxsLastChecked, tk)
         /\ ethNeeds.tokenTxsLastChecked[tk] = now
    /\ \A i \in DOMAIN AlethioFetched :
         /\ AlethioFetched[i].currencyCode \in DOMAIN lastCall.upd.tokenTxs
         /\ \E j \in DOMAIN lastCall.upd.tokenTxs[
                       AlethioFetched[i].currencyCode].edgeTransactions :
              lastCall.upd.tokenTxs[AlethioFetched[i].currencyCode]
                .edgeTransactions[j] = AlethioFetched[i]

\* A fetch for the token found no record: its entry is empty and its check
\* is stamped
C33_Witness ==
  /\ AlethioFetchCompleted
  /\ lastCall.tk # PRIMARY_CURRENCY
  /\ lastCall.upd.tokenTxs[lastCall.tk].edgeTransactions = <<>>
  /\ ethNeeds.tokenTxsLastChecked[lastCall.tk] = now
  /\ ~Has(ethNeeds.tokenTxsLastChecked, PRIMARY_CURRENCY)

---------------------------------------------------------------------------
(* C34 *)

\* The loop is at a checkAndUpdate call and leaves it or starts its fetch
CheckAndUpdateStep ==
  /\ loop.pc \in {"height", "nonce", "bal", "txs"}
  /\ ~loop.fetching
  /\ loop' # loop

\* now - lastChecked > pollMillisec for the check the loop is at
CurrentCheckDue ==
  now - LastChecked(ethNeeds, CurrentKey) > PollMillisec(CurrentKey)

\* C34: checkAndUpdate calls checkFunc exactly when more than the interval
\* has passed since lastChecked; a check that is not due starts no fetch,
\* changes nothing of walletLocalData, the engine or ethNeeds and raises no
\* callback
C34_FetchIffDue ==
  [][CheckAndUpdateStep =>
       /\ loop'.fetching <=> CurrentCheckDue
       /\ ~CurrentCheckDue =>
            /\ loop'.started = loop.started
            /\ trace' = <<>>
            /\ UNCHANGED <<walletLocalData, ethNeeds, engine>>]_vars

\* The height check was skipped exactly one interval after its last stamp
C34_Witness ==
  /\ lastCall.op = "notDue"
  /\ loop.pc = "nonce"
  /\ now - ethNeeds.blockHeightLastChecked = BLOCKHEIGHT_POLL_MILLISECONDS

---------------------------------------------------------------------------
(* C35 *)

\* C35: the nonce a successful signTx signs with lies between the confirmed
\* nonce and the confirmed nonce + 5, both read when signTx is called, and
\* right after the call unconfirmedNextNonce is that nonce + 1
C35_AllocatedNonceRange ==
  [][(SignTxStep /\ lastCall'.ok) =>
       /\ walletLocalData.nextNonce <= lastCall'.nonce
       /\ lastCall'.nonce <= walletLocalData.nextNonce + MAX_NONCE_DIFF
       /\ walletLocalData'.unconfirmedNextNonce = lastCall'.nonce + 1]_vars

\* An allocation at the upper end of the range
C35_Witness ==
  /\ AfterSignTx
  /\ lastCall.ok
  /\ lastCall.nonce = walletLocalData.nextNonce + MAX_NONCE_DIFF
  /\ walletLocalData.unconfirmedNextNonce = lastCall.nonce + 1

---------------------------------------------------------------------------
(* C36 *)

\* C36: a signTx call that throws ErrorExcessivePendingSpends leaves the
\* confirmed nonce, unconfirmedNextNonce, the count of unconfirmed spends
\* and walletLocalDataDirty as they were, signs with no nonce and raises no
\* callback
C36_RefusedAllocationFrame ==
  [][(SignTxStep /\ ~lastCall'.ok) =>
       /\ walletLocalData' = walletLocalData
       /\ engine' = engine
       /\ lastCall'.nonce = -1
       /\ trace' = <<>>]_vars

\* A refused allocation: the unconfirmed nonce is still 6 above the
\* confirmed one
C36_Witness ==
  /\ AfterSignTx
  /\ ~lastCall.ok
  /\ lastCall.nonce = -1
  /\ engine.walletLocalDataDirty
  /\ walletLocalData.unconfirmedNextNonce
       = walletLocalData.nextNonce + MAX_NONCE_DIFF + 1

---------------------------------------------------------------------------
(* C37 *)

\* Unconfirmed spends are pending and unconfirmedNextNonce is more than 5
\* above the confirmed nonce
BreakerTripped ==
  /\ walletLocalData.numUnconfirmedSpendTxs > 0
  /\ walletLocalData.unconfirmedNextNonce - walletLocalData.nextNonce
       > MAX_NONCE_DIFF

\* C37: signTx throws ErrorExcessivePendingSpends exactly in the states with
\* unconfirmed spends pending and unconfirmedNextNonce more than 5 above the
\* confirmed nonce; once a merged nonce has brought the difference to 5 or
\* less, or no unconfirmed spend is left, the next signTx succeeds
C37_BreakerReleases ==
  [][SignTxStep => (lastCall'.ok <=> ~BreakerTripped)]_vars

\* A successful allocation from unconfirmedNextNonce right after the merge
\* of a confirmed nonce before which signTx would have thrown
C37_Witness ==
  /\ AfterSignTx
  /\ lastCall.ok
  /\ lastCall.afterRelease
  /\ walletLocalData.numUnconfirmedSpendTxs > 0
  /\ lastCall.nonce > walletLocalData.nextNonce

---------------------------------------------------------------------------
(* C38 *)

\* processEthereumNetworkUpdate runs on the {} of a failed fetch
EmptyFactStep ==
  /\ ProcessUpdateStep
  /\ lastCall'.upd = EmptyFact

\* C38: the merge of {} leaves walletLocalData (block height, both nonces,
\* the balances, lastTransactionQueryHeight) and the transaction lists as
\* they were and raises neither onBlockHeightChanged nor onBalanceChanged
C38_EmptyFactFrame ==
  [][EmptyFactStep =>
       /\ walletLocalData' = walletLocalData
       /\ engine'.transactionList = engine.transactionList
       /\ CallbacksOf(trace', "onBlockHeightChanged") = {}
       /\ CallbacksOf(trace', "onBalanceChanged") = {}]_vars

\* {} was merged into a wallet that has a height, a confirmed nonce and a
\* balance
C38_Witness ==
  /\ lastCall.op = "processEthereumNetworkUpdate"
  /\ lastCall.upd = EmptyFact
  /\ walletLocalData.blockHeight > 0
  /\ walletLocalData.nextNonce > 0
  /\ Has(walletLocalData.totalBalances, PRIMARY_CURRENCY)

---------------------------------------------------------------------------
(* C39 *)

\* The answer to the page failed validation or no server answered
PageFailed(feed, page) == PageOf(feed, page).threw \/ ~PageOf(feed, page).valid

\* The step is a history check by the explorer, the cursor path having
\* failed, whose last requested page failed
FailedHistoryCheckStep ==
  /\ lastCall'.op = "checkTxsEthscan"
  /\ lastCall'.requested # <<>>
  /\ PageFailed(lastCall'.feed,
                lastCall'.requested[Len(lastCall'.requested)])

\* C39: a history check one of whose pages fails, whatever pages succeeded
\* before it, merges no record, leaves lastTransactionQueryHeight as it was
\* and raises no onTransactionsChanged
C39_HistoryAllOrNothing ==
  [][FailedHistoryCheckStep =>
       /\ engine'.transactionList = engine.transactionList
       /\ walletLocalData'.lastTransactionQueryHeight
            = walletLocalData.lastTransactionQueryHeight
       /\ CallbacksOf(trace', "onTransactionsChanged") = {}]_vars

\* Page 1 held 50 records and page 2 failed validation: nothing is stored
C39_Witness ==
  /\ lastCall.op = "checkTxsEthscan"
  /\ lastCall.requested = <<1, 2>>
  /\ ~PageOf(lastCall.feed, 2).threw
  /\ ~PageOf(lastCall.feed, 2).valid
  /\ lastCall.upd = EmptyFact
  /\ \A tk \in Tokens : TxListOf(Machine, tk) = <<>>

---------------------------------------------------------------------------
(* C40 *)

\* C40: the start block of a history check is lastTransactionQueryHeight[tk]
\* - 8 when that height is above 8 and 0 otherwise, 0 too when no height was
\* recorded; it is never negative and never above the recorded height
C40_StartBlockWithLookback ==
  lastCall.op = "checkTxs" =>
    /\ lastCall.startBlock =
         IF lastCall.queried
              /\ lastCall.queryHeight > ADDRESS_QUERY_LOOKBACK_BLOCKS
         THEN lastCall.queryHeight - ADDRESS_QUERY_LOOKBACK_BLOCKS
         ELSE 0
    /\ lastCall.startBlock >= 0
    /\ lastCall.queried => lastCall.startBlock <= lastCall.queryHeight

===========================================================================
